---- MODULE Spec2Model ----
(***************************************************************************)
(* Ingestion consumer, bounded persistence queue and sequential writer of  *)
(* backend/python/api/services/kafka_service.py                            *)
(* (SecurityEventProcessor and KafkaService), with the threat-intelligence *)
(* upserts of the writer, the users of the connection pool                 *)
(* (services/database.py, routes/correlation.py, routes/threat_intel.py),  *)
(* the ensemble scorer (services/ml_service.py) and the pattern and        *)
(* anomaly analysis of routes/correlation.py.                              *)
(*                                                                         *)
(* Risk scores are floats on a 0..10 scale in the code; the model keeps    *)
(* them in tenths (7.0 is 70).  A key of the decoded JSON object is either *)
(* "absent" (no such key), "null" (JSON null, Python None) or a value.     *)
(***************************************************************************)
EXTENDS Integers, Sequences, FiniteSets, Bags, TLC

\* ------------------------------------------------------------------ bounds
\* Number of messages the stream delivers in one run.
MaxMsgs == 2
\* Queue(maxsize=...): 100 in the code (kafka_service.py:24), bounded here.
QueueMaxSize == 1
\* Number of writer tasks start_database_queue_processor may create in a run.
MaxWriterTasks == 2
\* Number of store transactions in a run of the threat-intelligence store.
MaxStores == 2
\* create_pool(max_size=...): 20 or 10 in the code (database.py:53,69).
MaxPoolSize == 2
\* Number of calls each user of the pool makes in a run.
MaxRequests == 2
\* Length of the related-event lists whose content is enumerated.
MaxRelated == 6
MaxFeatures == 25
\* The callers that use the connection pool besides the writer.
Requesters == {"store", "correlation", "threat_intel"}

\* ------------------------------------------------------- program constants
max_retries == 3
\* retry_delay = 0.5, in milliseconds.
retry_delay == 500
HIGH_RISK_THRESHOLD == 70

\* ------------------------------------------------------------------ inputs
\* A JSON key that holds a number, is absent, or holds null.
Num(n) == [kind |-> "num", val |-> n]
Absent == [kind |-> "absent", val |-> 0]
Null == [kind |-> "null", val |-> 0]
\* The (event_id, risk_score) pairs of the messages the stream may deliver.
MessageInputs ==
    { <<"e1", Num(95)>>, <<"e1", Num(50)>>, <<"e1", Absent>>, <<"e1", Null>>,
      <<"absent", Num(95)>>, <<"null", Num(95)>> }
\* A message that reaches the queue (and is below the indicator threshold).
StorableInputs == { <<"e1", Num(75)>> }
Offsets == 1..MaxMsgs

\* The keys of a message the pipeline reads.  A string key is "absent", ""
\* (empty) or a value.
NoEvent ==
    [off |-> 0, event_id |-> "absent", risk_score |-> Absent, severity |-> "absent",
     source_ip |-> "absent", domain |-> "absent", file_hash |-> "absent"]

\* The decoded value of the message at offset o: the messages of the stream
\* carry a source address and neither severity, domain nor file hash.
EventData(o, eid, risk) ==
    [NoEvent EXCEPT !.off = o, !.event_id = eid, !.risk_score = risk,
                    !.source_ip = "10.0.0.5"]

VARIABLES
    running,                 \* KafkaService.running
    consumerPc,              \* position of the consumer thread (consume_events)
    cur,                     \* event whose put() is waiting for queue space
    stream,                  \* the messages the stream has delivered, by offset
    handled,                 \* offsets whose per-message handler has returned
    db_operation_queue,      \* SecurityEventProcessor.db_operation_queue
    queue_processor_running, \* SecurityEventProcessor.queue_processor_running
    queue_processor_task,    \* SecurityEventProcessor._queue_processor_task (0: None or ended)
    writers,                 \* the writer tasks created so far, by index
    closeAwait,              \* task KafkaService.close awaits (0: none)
    closePc,                 \* KafkaService lifecycle: new / open / stopping / closed
    storeMode,               \* the store: "flaky" (an attempt may fail) or "down"
    eventsTable,             \* committed rows of security.events, in commit order
    incidents,               \* incidents built by create_incident_from_event
    logs,                    \* bag of warning- and error-level log records
    attempts,                \* per offset: store attempts started for that task
    enqueueAttempts,         \* per offset: queue_database_operation calls made
    accepted,                \* offsets whose event was put on the queue
    queueAtClose,            \* offsets queued when KafkaService.close began
    results,                 \* per offset: what process_security_event returned
    threat_intel,            \* committed rows of security.threat_intel
    clock,                   \* the store's NOW()
    upserts,                 \* the indicator upserts executed so far, in order
    pool,                    \* connections of the asyncpg pool checked out
    requests,                \* store calls and API requests that use the pool
    call,                    \* a function under analysis and its arguments
    ret                      \* what that function returned

vars == <<running, consumerPc, cur, stream, handled, db_operation_queue,
          queue_processor_running, queue_processor_task, writers,
          closeAwait, closePc, storeMode, eventsTable, incidents, logs, attempts,
          enqueueAttempts, accepted, queueAtClose, results, threat_intel,
          clock, upserts, pool, requests, call, ret>>

consumerVars == <<running, consumerPc, cur, stream, handled>>
writerVars == <<queue_processor_running, queue_processor_task, writers>>
stopVars == <<closeAwait, closePc>>
ghostVars == <<attempts, enqueueAttempts, accepted, queueAtClose>>
tiVars == <<threat_intel, clock, upserts>>
poolVars == <<pool, requests>>
callVars == <<call, ret>>
\* What the ingestion pipeline reads and writes.
pipelineVars ==
    <<running, consumerPc, cur, stream, handled, db_operation_queue,
      queue_processor_running, queue_processor_task, writers, closeAwait,
      closePc, storeMode, eventsTable, incidents, logs, attempts,
      enqueueAttempts, accepted, queueAtClose, results>>

\* ----------------------------------------------------------------- helpers
\* Number of messages the stream has delivered so far.
delivered == Len(stream)

\* Stream entries: a message the value_deserializer decoded, or one it
\* rejected.
Decoded(ev) == [decodable |-> TRUE, ev |-> ev]
Undecodable(o) == [decodable |-> FALSE, ev |-> [NoEvent EXCEPT !.off = o]]

Log(level, msg, eid, o) ==
    SetToBag({[level |-> level, msg |-> msg, event_id |-> eid, off |-> o]})

\* event_data.get('risk_score', 0.0): the default replaces an absent key only.
GetRisk(ev) == IF ev.risk_score.kind = "absent" THEN Num(0) ELSE ev.risk_score

\* `risk_score >= 7.0` raises TypeError when risk_score is None.
RiskComparisonRaises(ev) == GetRisk(ev).kind = "null"

\* (Mutation of HighRisk: the threshold of the medium bucket is used.)
HighRiskAtMedium(ev) == GetRisk(ev).val >= 50

\* `risk_score >= 7.0  # High risk threshold`
HighRisk(ev) == GetRisk(ev).val >= HIGH_RISK_THRESHOLD

\* event_data.get('event_id', '')[:8] raises TypeError when event_id is None.
CreateIncidentRaises(ev) == ev.event_id = "null"

\* event_data.get('severity', 'MEDIUM'): the incident takes the message's own
\* severity string.
IncidentSeverity(ev) == IF ev.severity = "absent" THEN "MEDIUM" ELSE ev.severity

create_incident_from_event(ev) ==
    [source_event_id |-> ev.event_id, risk_score |-> GetRisk(ev).val, off |-> ev.off,
     severity |-> IncidentSeverity(ev)]

\* The dictionaries process_security_event returns; the error one has no
\* incident_created key.
NoResult == [status |-> "none", incident_created |-> "absent"]
ErrorResult == [status |-> "error", incident_created |-> "absent"]
ProcessedResult(ev) ==
    [status |-> "processed",
     incident_created |-> IF HighRisk(ev) THEN "true" ELSE "false"]

\* KafkaService.process_security_event logs a warning for a result that
\* reports an incident.
IncidentWarning(ev) ==
    IF ProcessedResult(ev).incident_created = "true"
    THEN Log("warning", "High-risk security incident created", "n/a", ev.off)
    ELSE EmptyBag

map_risk_to_severity(risk) ==
    IF risk >= 90 THEN "critical"
    ELSE IF risk >= 70 THEN "high"
    ELSE IF risk >= 50 THEN "medium"
    ELSE "low"

\* The row the INSERT of store_security_event writes for an event.
EventRow(ev) ==
    [off |-> ev.off, event_id |-> ev.event_id,
     severity |-> map_risk_to_severity(GetRisk(ev).val),
     status |-> IF GetRisk(ev).val >= 70 THEN "open" ELSE "investigating",
     ml_score |-> ev.risk_score]

\* ------------------------------------------------- threat intelligence
\* `if event_data.get(field)`: an absent, null or empty field is skipped.
Truthy(field) == field \notin {"absent", ""}

\* risk_score / 10.0, in hundredths (risk scores are in tenths).
IndicatorConfidence(ev) == (GetRisk(ev).val * 100) \div 100

\* The indicators _store_threat_intelligence extracts, in the order it
\* stores them.
Indicators(ev) ==
    SelectSeq(<<[type |-> "ip", value |-> ev.source_ip,
                 confidence |-> IndicatorConfidence(ev)],
                [type |-> "domain", value |-> ev.domain,
                 confidence |-> IndicatorConfidence(ev)],
                [type |-> "hash", value |-> ev.file_hash,
                 confidence |-> IndicatorConfidence(ev)]>>,
              LAMBDA ind : Truthy(ind.value))

\* (Mutation of UpsertConfidence: the new value replaces the stored one.)
UpsertConfidenceOverwrite(stored, new) == new

\* GREATEST(security.threat_intel.confidence_score, $4)
UpsertConfidence(stored, new) == IF stored >= new THEN stored ELSE new

\* INSERT ... ON CONFLICT (indicator_value, indicator_type) DO UPDATE SET
\* last_seen = NOW(), confidence_score = GREATEST(...), executed at time now.
UpsertIndicator(table, ind, now) ==
    LET conflict == {r \in table : /\ r.indicator_value = ind.value
                                   /\ r.indicator_type = ind.type}
    IN IF conflict = {}
       THEN table \cup {[indicator_type |-> ind.type, indicator_value |-> ind.value,
                         confidence_score |-> ind.confidence,
                         first_seen |-> now, last_seen |-> now]}
       ELSE (table \ conflict) \cup
            {[r EXCEPT !.last_seen = now,
                       !.confidence_score = UpsertConfidence(@, ind.confidence)] :
             r \in conflict}

\* `for indicator in indicators: await conn.execute(...)`.
RECURSIVE UpsertAll(_, _, _)
UpsertAll(table, inds, now) ==
    IF inds = <<>> THEN table
    ELSE UpsertAll(UpsertIndicator(table, Head(inds), now), Tail(inds), now)

store_threat_intelligence(table, ev, now) == UpsertAll(table, Indicators(ev), now)

\* (Mutation of StoresIndicators: the gate is the incident threshold.)
StoresIndicatorsAtIncidentThreshold(ev) == GetRisk(ev).val >= 70

\* `if event_data.get('risk_score', 0.0) >= 8.0` in store_security_event.
StoresIndicators(ev) == GetRisk(ev).val >= 80

\* The upserts one committed store of ev executes.
ExecutedUpserts(ev, now) ==
    IF StoresIndicators(ev)
    THEN [k \in DOMAIN Indicators(ev) |->
             [type |-> Indicators(ev)[k].type, value |-> Indicators(ev)[k].value,
              confidence |-> Indicators(ev)[k].confidence, at |-> now, off |-> ev.off]]
    ELSE <<>>

\* The transaction of store_security_event that commits: the INSERT into
\* security.events and, for a high-confidence threat, the indicator upserts.
\* NOW() is the same throughout a transaction.
CommitStore(ev) ==
    /\ eventsTable' = Append(eventsTable, EventRow(ev))
    /\ threat_intel' = IF StoresIndicators(ev)
                       THEN store_threat_intelligence(threat_intel, ev, clock)
                       ELSE threat_intel
    /\ upserts' = upserts \o ExecutedUpserts(ev, clock)
    /\ clock' = clock + 1

\* How an indicator upsert fails: the server rejects the statement, which
\* aborts the transaction, or the driver rejects an argument before anything
\* is sent, which leaves the transaction usable.
UpsertFailures == {"statement_error", "argument_error"}

\* The upserts that may fail in a store of ev, by position.
FailingUpserts(ev) == IF StoresIndicators(ev) THEN DOMAIN Indicators(ev) ELSE {}

\* (Mutation of SurvivesUpsertFailure: the transaction always commits.)
SurvivesUpsertFailureAlways(failure) == TRUE

\* Whether COMMIT at the exit of `async with conn.transaction()` still
\* commits after _store_threat_intelligence swallowed the exception: the
\* COMMIT of an aborted transaction rolls it back without an error.
SurvivesUpsertFailure(failure) == failure = "argument_error"

\* The transaction of store_security_event in which upsert number fail
\* raises: _store_threat_intelligence logs the error and returns, the
\* remaining indicators are skipped, and the block exits normally.
CommitStoreUpsertFails(ev, fail, failure) ==
    LET done == SubSeq(Indicators(ev), 1, fail - 1) IN
    /\ eventsTable' = IF SurvivesUpsertFailure(failure)
                      THEN Append(eventsTable, EventRow(ev)) ELSE eventsTable
    /\ threat_intel' = IF SurvivesUpsertFailure(failure)
                       THEN UpsertAll(threat_intel, done, clock) ELSE threat_intel
    /\ upserts' = IF SurvivesUpsertFailure(failure)
                  THEN upserts \o SubSeq(ExecutedUpserts(ev, clock), 1, fail - 1)
                  ELSE upserts
    /\ clock' = clock + 1

QueueFull == Len(db_operation_queue) >= QueueMaxSize

\* Every connection of the pool is checked out: pool.acquire() waits.
PoolExhausted == pool >= MaxPoolSize

NoWriter == [pc |-> "none", ev |-> NoEvent, attempt |-> 0]

\* A user of the pool between calls: no call in progress, no connection held.
NoRequest == [pc |-> "idle", attempt |-> 0, held |-> 0, calls |-> 0, waits |-> <<>>]
NoCall == [fn |-> "none"]
NoReturn == [fn |-> "none"]

\* The state after construction, before any call that is analysed on its own.
Idle ==
    /\ running = FALSE
    /\ consumerPc = "idle"
    /\ cur = NoEvent
    /\ stream = <<>>
    /\ handled = {}
    /\ db_operation_queue = <<>>
    /\ queue_processor_running = FALSE
    /\ queue_processor_task = 0
    /\ writers = [i \in 1..MaxWriterTasks |-> NoWriter]
    /\ closeAwait = 0
    /\ closePc = "new"
    /\ storeMode \in {"flaky", "down"}
    /\ eventsTable = <<>>
    /\ incidents = <<>>
    /\ logs = EmptyBag
    /\ attempts = [o \in Offsets |-> 0]
    /\ enqueueAttempts = [o \in Offsets |-> 0]
    /\ accepted = {}
    /\ queueAtClose = {}
    /\ results = [o \in Offsets |-> NoResult]
    /\ threat_intel = {}
    /\ clock = 1
    /\ upserts = <<>>
    /\ pool = 0
    /\ requests = [r \in Requesters |-> NoRequest]

Init == Idle /\ call = NoCall /\ ret = NoReturn

\* ------------------------------------------------ queue processor lifecycle
\* (Mutation of StartGuard: the flag is not consulted.)
StartGuardMissing == TRUE

\* start_database_queue_processor returns at once while the flag is set.
StartGuard == ~queue_processor_running

\* Slots of ended tasks are reused; the lowest free one is taken.
FreeSlot(i) ==
    /\ writers[i].pc = "none"
    /\ \A j \in 1..(i - 1) : writers[j].pc # "none"

\* start_database_queue_processor past its guard: sets the flag and creates
\* the writer task.
CreateWriterTask(i) ==
    /\ queue_processor_running' = TRUE
    /\ queue_processor_task' = i
    /\ writers' = [writers EXCEPT ![i] = [pc |-> "get", ev |-> NoEvent, attempt |-> 0]]

\* task.cancel(): the task raises CancelledError at the await it is suspended
\* in and from then on runs nothing but its context-manager exits (rollback
\* of an open transaction, release of the connection); the task it had taken
\* from the queue is gone.  Cancelling an ended task (0) changes nothing.
Cancel(ws, i) ==
    IF i = 0 \/ ws[i].pc \in {"none", "cancelling"}
    THEN ws
    ELSE [ws EXCEPT ![i] = [pc |-> "cancelling", ev |-> NoEvent, attempt |-> 0]]

\* KafkaService.initialize with a reachable broker: starts the consumer
\* thread, then calls start_database_queue_processor.
Initialize ==
    /\ closePc = "new"
    /\ closePc' = "open"
    /\ running' = TRUE
    /\ consumerPc' = "poll"
    /\ IF StartGuard
       THEN \E i \in 1..MaxWriterTasks : FreeSlot(i) /\ CreateWriterTask(i)
       ELSE UNCHANGED writerVars
    /\ UNCHANGED <<cur, stream, handled, db_operation_queue, closeAwait,
                   storeMode, eventsTable, incidents, logs, ghostVars>>
    /\ UNCHANGED <<tiVars, results, poolVars, callVars>>

\* A direct call of start_database_queue_processor.
Start ==
    /\ StartGuard
    /\ \E i \in 1..MaxWriterTasks : FreeSlot(i) /\ CreateWriterTask(i)
    /\ UNCHANGED <<consumerVars, db_operation_queue, stopVars, storeMode,
                   eventsTable, incidents, logs, ghostVars>>
    /\ UNCHANGED <<tiVars, results, poolVars, callVars>>

\* A direct call of stop_database_queue_processor: clears the flag and
\* cancels the task; the await of the cancelled task that follows changes no
\* state.
Stop ==
    /\ queue_processor_task # 0
    /\ queue_processor_running' = FALSE
    /\ writers' = Cancel(writers, queue_processor_task)
    /\ UNCHANGED <<consumerVars, db_operation_queue, queue_processor_task,
                   stopVars, storeMode, eventsTable, incidents, logs, ghostVars>>
    /\ UNCHANGED <<tiVars, results, poolVars, callVars>>

\* KafkaService.close up to the await inside stop_database_queue_processor:
\* running is cleared, the consumer thread is joined for at most 5 s (the
\* join blocks the event loop, so the writer takes no step in between), then
\* the flag is cleared and the writer task cancelled.  The consumer thread
\* may outlive the join (timeout) and finish its batch afterwards.
CloseBegin ==
    /\ closePc = "open"
    /\ running' = FALSE
    /\ queue_processor_running' = FALSE
    /\ writers' = Cancel(writers, queue_processor_task)
    /\ closeAwait' = IF queue_processor_task # 0
                        /\ writers[queue_processor_task].pc # "none"
                     THEN queue_processor_task ELSE 0
    /\ closePc' = "stopping"
    /\ queueAtClose' = {db_operation_queue[k].off : k \in DOMAIN db_operation_queue}
                       \cup {writers[i].ev.off : i \in {j \in 1..MaxWriterTasks :
                                                        writers[j].pc = "attempt"}}
    /\ UNCHANGED <<consumerPc, cur, stream, handled, db_operation_queue,
                   queue_processor_task, storeMode, eventsTable,
                   incidents, logs, attempts, enqueueAttempts, accepted>>
    /\ UNCHANGED <<tiVars, results, poolVars, callVars>>

\* The await of the cancelled writer task has returned; the producer is
\* closed.
CloseEnd ==
    /\ closePc = "stopping"
    /\ closeAwait = 0
    /\ closePc' = "closed"
    /\ UNCHANGED <<consumerVars, db_operation_queue, writerVars, closeAwait,
                   storeMode, eventsTable, incidents, logs, ghostVars>>
    /\ UNCHANGED <<tiVars, results, poolVars, callVars>>

\* ------------------------------------------------------------------ writer
\* _process_database_queue: the awaited get() returns the oldest task.
WriterGet(i) ==
    /\ writers[i].pc = "get"
    /\ db_operation_queue # <<>>
    /\ writers' = [writers EXCEPT ![i] =
                     [pc |-> "attempt", ev |-> Head(db_operation_queue), attempt |-> 0]]
    /\ db_operation_queue' = Tail(db_operation_queue)
    /\ UNCHANGED <<consumerVars, queue_processor_running, queue_processor_task,
                   stopVars, storeMode, eventsTable, incidents, logs, ghostVars>>
    /\ UNCHANGED <<tiVars, results, poolVars, callVars>>

\* (Mutation of IsLastAttempt: off by one.)
IsLastAttemptOffByOne(attempt) == attempt = max_retries

\* `if attempt == max_retries - 1` in the except branch of store_security_event.
IsLastAttempt(attempt) == attempt = max_retries - 1

\* `for attempt in range(max_retries)`: whether the loop has a next round.
RangeHasNext(attempt) == attempt + 1 < max_retries

\* One round of the retry loop of store_security_event that ends normally:
\* fresh database service and pool connection, transaction, INSERT, COMMIT,
\* connection released, return; the writer marks the task done.
WriterAttemptOk(i) ==
    /\ writers[i].pc = "attempt"
    /\ storeMode = "flaky"
    /\ ~PoolExhausted
    /\ attempts' = [attempts EXCEPT ![writers[i].ev.off] = @ + 1]
    /\ CommitStore(writers[i].ev)
    /\ writers' = [writers EXCEPT ![i] = [pc |-> "get", ev |-> NoEvent, attempt |-> 0]]
    /\ UNCHANGED <<consumerVars, db_operation_queue, queue_processor_running,
                   queue_processor_task, stopVars, storeMode, incidents, logs,
                   enqueueAttempts, accepted, queueAtClose>>
    /\ UNCHANGED <<results, poolVars, callVars>>

\* ... or in which an indicator upsert raises: the error is logged by
\* _store_threat_intelligence and the round ends like a successful one.
WriterAttemptUpsertFails(i) ==
    LET w == writers[i] IN
    /\ w.pc = "attempt"
    /\ storeMode = "flaky"
    /\ ~PoolExhausted
    /\ \E fail \in FailingUpserts(w.ev), failure \in UpsertFailures :
          CommitStoreUpsertFails(w.ev, fail, failure)
    /\ attempts' = [attempts EXCEPT ![w.ev.off] = @ + 1]
    /\ logs' = logs (+) Log("error", "Failed to store threat intelligence",
                            "n/a", w.ev.off)
    /\ writers' = [writers EXCEPT ![i] = [pc |-> "get", ev |-> NoEvent, attempt |-> 0]]
    /\ UNCHANGED <<consumerVars, db_operation_queue, queue_processor_running,
                   queue_processor_task, stopVars, storeMode, incidents,
                   enqueueAttempts, accepted, queueAtClose>>
    /\ UNCHANGED <<results, poolVars, callVars>>

\* ... or that ends with an exception (no connection, INSERT or COMMIT
\* failed; the transaction is rolled back and the connection released): a
\* warning; on the last attempt an error log (fields: error, total_attempts)
\* and return, otherwise the backoff sleep and the next round.
WriterAttemptFail(i) ==
    LET w == writers[i] IN
    /\ w.pc = "attempt"
    /\ attempts' = [attempts EXCEPT ![w.ev.off] = @ + 1]
    /\ logs' = logs (+) Log("warning", "Failed to store security event", "n/a", w.ev.off)
                    (+) (IF IsLastAttempt(w.attempt)
                         THEN Log("error", "All attempts to store security event failed",
                                  "n/a", w.ev.off)
                         ELSE EmptyBag)
    /\ writers' = [writers EXCEPT ![i] =
                     IF IsLastAttempt(w.attempt) \/ ~RangeHasNext(w.attempt)
                     THEN [pc |-> "get", ev |-> NoEvent, attempt |-> 0]
                     ELSE [pc |-> "attempt", ev |-> w.ev, attempt |-> w.attempt + 1]]
    /\ UNCHANGED <<consumerVars, db_operation_queue, queue_processor_running,
                   queue_processor_task, stopVars, storeMode, eventsTable,
                   incidents, enqueueAttempts, accepted, queueAtClose>>
    /\ UNCHANGED <<tiVars, results, poolVars, callVars>>

\* The cancelled task has unwound and ends; whoever awaits it resumes.
WriterUnwind(i) ==
    /\ writers[i].pc = "cancelling"
    /\ writers' = [writers EXCEPT ![i] = NoWriter]
    /\ queue_processor_task' = IF queue_processor_task = i THEN 0 ELSE queue_processor_task
    /\ closeAwait' = IF closeAwait = i THEN 0 ELSE closeAwait
    /\ UNCHANGED <<consumerVars, db_operation_queue, queue_processor_running,
                   closePc, storeMode, eventsTable, incidents, logs, ghostVars>>
    /\ UNCHANGED <<tiVars, results, poolVars, callVars>>

\* ---------------------------------------------------------------- consumer
\* Where the consumer thread goes after one message of a polled batch: to
\* the next message of the batch, or back to the `while self.running` test.
AfterMessage(more) == IF more THEN "for" ELSE "poll"

\* (Mutation of AfterMessageError: the exception leaves the while loop.)
AfterMessageErrorEndsLoop(more) == "closed"

\* ... after the handler of a message ended with an exception (the except
\* clauses of both process_security_event methods and of the for body).
AfterMessageError(more) == AfterMessage(more)

\* ... after consumer.poll raised (the decoder rejected a message).
AfterPollError == "poll"

\* asyncio.Queue.put returns once the item is in the queue; on a full queue
\* it waits for space.  It never raises QueueFull, so the except branch of
\* queue_database_operation (direct store) is not taken.
QueuePut(ev, more) ==
    /\ enqueueAttempts' = [enqueueAttempts EXCEPT ![ev.off] = @ + 1]
    /\ IF QueueFull
       THEN /\ consumerPc' = "put_wait"
            /\ cur' = ev
            /\ UNCHANGED <<db_operation_queue, accepted, handled, results, logs>>
       ELSE /\ db_operation_queue' = Append(db_operation_queue, ev)
            /\ accepted' = accepted \cup {ev.off}
            /\ handled' = handled \cup {ev.off}
            /\ results' = [results EXCEPT ![ev.off] = ProcessedResult(ev)]
            /\ logs' = logs (+) IncidentWarning(ev)
            /\ consumerPc' = AfterMessage(more)
            /\ cur' = cur

\* KafkaService.process_security_event and, inside it,
\* SecurityEventProcessor.process_security_event for one decoded message.
process_security_event(ev, more) ==
    IF RiskComparisonRaises(ev) \/ (HighRisk(ev) /\ CreateIncidentRaises(ev))
    THEN /\ logs' = logs (+) Log("error", "Error processing security event", "n/a", ev.off)
         /\ handled' = handled \cup {ev.off}
         /\ results' = [results EXCEPT ![ev.off] = ErrorResult]
         /\ consumerPc' = AfterMessageError(more)
         /\ UNCHANGED <<cur, db_operation_queue, incidents, enqueueAttempts, accepted>>
    ELSE /\ incidents' = IF HighRisk(ev)
                         THEN Append(incidents, create_incident_from_event(ev))
                         ELSE incidents
         /\ QueuePut(ev, more)

\* The stream has a further message for the batch being polled.
MoreChoices(n) == IF n < MaxMsgs THEN BOOLEAN ELSE {FALSE}

\* message.value of a decoded message m = <<event_id, risk_score>> or
\* <<event_id, risk_score, severity>>.
MessageEvent(o, m) ==
    IF Len(m) = 3 THEN [EventData(o, m[1], m[2]) EXCEPT !.severity = m[3]]
    ELSE EventData(o, m[1], m[2])

\* One decoded message of a polled batch goes through the handler.
HandleMessage(m) ==
    LET ev == MessageEvent(delivered + 1, m) IN
    /\ delivered < MaxMsgs
    /\ stream' = Append(stream, Decoded(ev))
    /\ \E more \in MoreChoices(delivered + 1) : process_security_event(ev, more)
    /\ UNCHANGED <<running, writerVars, stopVars, storeMode, eventsTable,
                   attempts, queueAtClose>>
    /\ UNCHANGED <<tiVars, poolVars, callVars>>

\* `while self.running`: poll returns a batch; its first message is handled.
ConsumerPoll(inputs) ==
    /\ consumerPc = "poll"
    /\ running
    /\ \E m \in inputs : HandleMessage(m)

\* The next message of the batch already polled (running is not re-read).
ConsumerNextInBatch(inputs) ==
    /\ consumerPc = "for"
    /\ \E m \in inputs : HandleMessage(m)

\* consumer.poll raises on a message the value_deserializer cannot decode.
ConsumerPollError ==
    /\ consumerPc = "poll"
    /\ running
    /\ delivered < MaxMsgs
    /\ stream' = Append(stream, Undecodable(delivered + 1))
    /\ logs' = logs (+) Log("warning", "Consumer poll error", "n/a", delivered + 1)
    /\ consumerPc' = AfterPollError
    /\ UNCHANGED <<running, cur, handled, db_operation_queue, writerVars,
                   stopVars, storeMode, eventsTable, incidents, ghostVars>>
    /\ UNCHANGED <<tiVars, results, poolVars, callVars>>

\* The waiting put() is woken once the queue has space.
ConsumerPutResume ==
    /\ consumerPc = "put_wait"
    /\ ~QueueFull
    /\ db_operation_queue' = Append(db_operation_queue, cur)
    /\ accepted' = accepted \cup {cur.off}
    /\ handled' = handled \cup {cur.off}
    /\ results' = [results EXCEPT ![cur.off] = ProcessedResult(cur)]
    /\ logs' = logs (+) IncidentWarning(cur)
    /\ cur' = NoEvent
    /\ \E more \in MoreChoices(delivered) : consumerPc' = AfterMessage(more)
    /\ UNCHANGED <<running, stream, writerVars, stopVars, storeMode,
                   eventsTable, incidents, attempts, enqueueAttempts,
                   queueAtClose>>
    /\ UNCHANGED <<tiVars, poolVars, callVars>>

\* `while self.running` is false: the thread closes its consumer and ends.
ConsumerExit ==
    /\ consumerPc = "poll"
    /\ ~running
    /\ consumerPc' = "closed"
    /\ UNCHANGED <<running, cur, stream, handled, db_operation_queue,
                   writerVars, stopVars, storeMode, eventsTable, incidents,
                   logs, ghostVars>>
    /\ UNCHANGED <<tiVars, results, poolVars, callVars>>

\* ---------------------------------------------------------- specifications
\* The pipeline under the service's own lifecycle (initialize ... close).
Next ==
    \/ Initialize
    \/ CloseBegin
    \/ CloseEnd
    \/ \E i \in 1..MaxWriterTasks : WriterGet(i)
    \/ \E i \in 1..MaxWriterTasks : WriterAttemptOk(i)
    \/ \E i \in 1..MaxWriterTasks : WriterAttemptUpsertFails(i)
    \/ \E i \in 1..MaxWriterTasks : WriterAttemptFail(i)
    \/ \E i \in 1..MaxWriterTasks : WriterUnwind(i)
    \/ ConsumerPoll(MessageInputs)
    \/ ConsumerNextInBatch(MessageInputs)
    \/ ConsumerPollError
    \/ ConsumerPutResume
    \/ ConsumerExit

Spec == Init /\ [][Next]_vars

\* The same with direct start_database_queue_processor and
\* stop_database_queue_processor calls at any time.  The writer's lifecycle
\* does not read what a task holds, so producers enqueue one kind of event.
NextStartStop ==
    \/ Initialize
    \/ Start
    \/ Stop
    \/ CloseBegin
    \/ CloseEnd
    \/ \E i \in 1..MaxWriterTasks : WriterGet(i)
    \/ \E i \in 1..MaxWriterTasks : WriterAttemptOk(i)
    \/ \E i \in 1..MaxWriterTasks : WriterAttemptFail(i)
    \/ \E i \in 1..MaxWriterTasks : WriterUnwind(i)
    \/ ConsumerPoll(StorableInputs)
    \/ ConsumerNextInBatch(StorableInputs)
    \/ ConsumerPutResume
    \/ ConsumerExit

\* A store on which any attempt may fail or succeed covers the one that is down.
InitStartStop == Init /\ storeMode = "flaky"

SpecStartStop == InitStartStop /\ [][NextStartStop]_vars

\* ------------------------------------------- threat-intelligence store
\* store_security_event called directly, one committing transaction after
\* the other, with events that differ in risk score and indicator fields;
\* and the upsert statement of _store_threat_intelligence executed with
\* chosen parameters.
IndicatorEvents ==
    { [NoEvent EXCEPT !.event_id = "e1", !.risk_score = Num(r), !.source_ip = ip,
                      !.domain = d, !.file_hash = h] :
        r \in {75, 80, 95, 120}, ip \in {"absent", "", "10.0.0.5"},
        d \in {"absent", "evil.example"}, h \in {"", "abc123"} }

UpsertParameters ==
    { [type |-> "ip", value |-> "10.0.0.5", confidence |-> c] : c \in {40, 60, 90} }

NoStores == [fn |-> "store_security_event", events |-> <<>>, failed |-> <<>>]

\* store_security_event(ev) whose first attempt commits.
StoreEvent(e) ==
    LET ev == [e EXCEPT !.off = clock] IN
    /\ clock <= MaxStores
    /\ CommitStore(ev)
    /\ call' = [call EXCEPT !.events = Append(@, ev)]
    /\ UNCHANGED <<consumerVars, db_operation_queue, writerVars, stopVars,
                   storeMode, incidents, logs, ghostVars, results, poolVars, ret>>

\* store_security_event(ev) whose first attempt has upsert number fail
\* raise.
StoreEventUpsertFails(e, fail, failure) ==
    LET ev == [e EXCEPT !.off = clock] IN
    /\ clock <= MaxStores
    /\ fail \in FailingUpserts(ev)
    /\ CommitStoreUpsertFails(ev, fail, failure)
    /\ logs' = logs (+) Log("error", "Failed to store threat intelligence",
                            "n/a", ev.off)
    /\ call' = [call EXCEPT !.failed = Append(@, [ev |-> ev, fail |-> fail,
                                                   failure |-> failure])]
    /\ UNCHANGED <<consumerVars, db_operation_queue, writerVars, stopVars,
                   storeMode, incidents, ghostVars, results, poolVars, ret>>

\* conn.execute of the upsert statement, in a transaction of its own.
ExecuteUpsert(ind) ==
    /\ clock <= MaxStores
    /\ threat_intel' = UpsertIndicator(threat_intel, ind, clock)
    /\ upserts' = Append(upserts, [type |-> ind.type, value |-> ind.value,
                                   confidence |-> ind.confidence, at |-> clock,
                                   off |-> 0])
    /\ clock' = clock + 1
    /\ call' = [call EXCEPT !.events = Append(@, NoEvent)]
    /\ UNCHANGED <<consumerVars, db_operation_queue, writerVars, stopVars,
                   storeMode, eventsTable, incidents, logs, ghostVars, results,
                   poolVars, ret>>

InitThreatIntel == Idle /\ storeMode = "flaky" /\ call = NoStores /\ ret = NoReturn

NextThreatIntel ==
    \/ \E e \in IndicatorEvents : StoreEvent(e)
    \/ \E ind \in UpsertParameters : ExecuteUpsert(ind)

SpecThreatIntel == InitThreatIntel /\ [][NextThreatIntel]_vars

\* The same stores when an indicator upsert may raise, for events below and
\* above the indicator threshold.
TransactionEvents == {e \in IndicatorEvents : e.risk_score \in {Num(75), Num(95)}}

InitTransaction == Idle /\ storeMode = "flaky" /\ call = NoStores /\ ret = NoReturn

NextTransaction ==
    \/ \E e \in TransactionEvents : StoreEvent(e)
    \/ \E e \in TransactionEvents, fail \in 1..3, failure \in UpsertFailures :
          StoreEventUpsertFails(e, fail, failure)

SpecTransaction == InitTransaction /\ [][NextTransaction]_vars

\* ------------------------------------------------------- connection pool
\* The three users of the asyncpg pool, each making its calls one after the
\* other and all of them interleaved: store_security_event (the writer),
\* find_related_events (correlation route) and get_threat_intelligence
\* (threat-intelligence route).  held counts the connections a user has
\* checked out and not given back.
\* pool.acquire() returns a connection once one is free.
Acquire(r, pc) ==
    /\ ~PoolExhausted
    /\ pool' = pool + 1
    /\ requests' = [requests EXCEPT ![r].pc = pc, ![r].held = @ + 1]

\* The connection goes back to the pool (exit of `async with acquire()`), or
\* is closed and its slot freed (conn.close()).
Release(r, pc) ==
    /\ pool' = pool - 1
    /\ requests' = [requests EXCEPT ![r].pc = pc, ![r].held = @ - 1]

BeginCall(r, pc) ==
    /\ requests[r].pc = "idle"
    /\ requests[r].calls < MaxRequests
    /\ requests' = [requests EXCEPT ![r].pc = pc, ![r].attempt = 0,
                                    ![r].calls = @ + 1, ![r].waits = <<>>]
    /\ UNCHANGED pool

\* store_security_event is called with a task.
StoreBegin == BeginCall("store", "acquire") /\ UNCHANGED <<pipelineVars, tiVars, callVars>>

\* `async with db_service._pool.acquire() as conn`.
StoreAcquire ==
    /\ requests["store"].pc = "acquire"
    /\ Acquire("store", "transaction")
    /\ UNCHANGED <<pipelineVars, tiVars, callVars>>

\* The transaction commits; both context managers exit; return.
StoreCommit ==
    /\ requests["store"].pc = "transaction"
    /\ Release("store", "idle")
    /\ UNCHANGED <<pipelineVars, tiVars, callVars>>

\* Where a failed attempt goes: return after the last one, otherwise the
\* backoff sleep.
AfterFailedAttempt(attempt) == IF IsLastAttempt(attempt) THEN "idle" ELSE "sleep"

\* An exception inside the transaction: both context managers exit
\* (rollback, release) before the except clause runs.
StoreFail ==
    /\ requests["store"].pc = "transaction"
    /\ Release("store", AfterFailedAttempt(requests["store"].attempt))
    /\ UNCHANGED <<pipelineVars, tiVars, callVars>>

\* get_database_service or acquire raises: no connection was checked out.
StoreAcquireFail ==
    /\ requests["store"].pc = "acquire"
    /\ requests' = [requests EXCEPT
                       !["store"].pc = AfterFailedAttempt(requests["store"].attempt)]
    /\ UNCHANGED <<pool, pipelineVars, tiVars, callVars>>

\* (Mutation of BackoffDelay: the same delay after every failed attempt.)
BackoffDelayConstant(attempt) == retry_delay

\* `await asyncio.sleep(retry_delay * (2 ** attempt))` in the except branch.
BackoffDelay(attempt) == retry_delay * 2 ^ attempt

\* `if attempt > 0: await asyncio.sleep(retry_delay * attempt)` at the top
\* of a round, before the connection is acquired.
RoundDelay(attempt) == IF attempt > 0 THEN retry_delay * attempt ELSE 0

\* The backoff sleep and the delay at the top of the next round are over;
\* waits records the time between the failed attempt and the acquire of the
\* next one.
StoreWake ==
    /\ requests["store"].pc = "sleep"
    /\ requests' = [requests EXCEPT
                       !["store"].pc = "acquire",
                       !["store"].attempt = @ + 1,
                       !["store"].waits =
                           Append(@, BackoffDelay(requests["store"].attempt)
                                       + RoundDelay(requests["store"].attempt + 1))]
    /\ UNCHANGED <<pool, pipelineVars, tiVars, callVars>>

\* find_related_events is called.
CorrelationBegin ==
    BeginCall("correlation", "await_context") /\ UNCHANGED <<pipelineVars, tiVars, callVars>>

\* `await db_service.get_connection_context()`: get_connection_context is a
\* plain method that returns pool.acquire(); awaiting that object checks a
\* connection out and yields the connection itself.
CorrelationAwaitContext ==
    /\ requests["correlation"].pc = "await_context"
    /\ Acquire("correlation", "async_with")
    /\ UNCHANGED <<pipelineVars, tiVars, callVars>>

\* get_connection_context raises RuntimeError (database not initialized):
\* the except clause returns [] and nothing was checked out.
CorrelationNotConnected ==
    /\ requests["correlation"].pc = "await_context"
    /\ requests' = [requests EXCEPT !["correlation"].pc = "idle"]
    /\ UNCHANGED <<pool, pipelineVars, tiVars, callVars>>

\* `async with connection_context as conn`: a connection is not an
\* asynchronous context manager, the statement raises, the except clause
\* logs and returns []; nothing releases the connection.
CorrelationAsyncWithRaises ==
    /\ requests["correlation"].pc = "async_with"
    /\ requests' = [requests EXCEPT !["correlation"].pc = "idle"]
    /\ UNCHANGED <<pool, pipelineVars, tiVars, callVars>>

\* get_threat_intelligence is called.
ThreatIntelBegin ==
    BeginCall("threat_intel", "acquire") /\ UNCHANGED <<pipelineVars, tiVars, callVars>>

\* `conn = await get_database_connection()`.
ThreatIntelAcquire ==
    /\ requests["threat_intel"].pc = "acquire"
    /\ Acquire("threat_intel", "fetch")
    /\ UNCHANGED <<pipelineVars, tiVars, callVars>>

\* conn.fetch returns and `await conn.close()` runs.
ThreatIntelFetchOk ==
    /\ requests["threat_intel"].pc = "fetch"
    /\ Release("threat_intel", "idle")
    /\ UNCHANGED <<pipelineVars, tiVars, callVars>>

\* conn.fetch raises: control goes to the except clause (HTTP 500); there is
\* no finally and conn.close() is skipped.
ThreatIntelFetchFail ==
    /\ requests["threat_intel"].pc = "fetch"
    /\ requests' = [requests EXCEPT !["threat_intel"].pc = "idle"]
    /\ UNCHANGED <<pool, pipelineVars, tiVars, callVars>>

InitPool == Idle /\ storeMode = "flaky" /\ call = NoCall /\ ret = NoReturn

NextPool ==
    \/ StoreBegin
    \/ StoreAcquire
    \/ StoreCommit
    \/ StoreFail
    \/ StoreAcquireFail
    \/ StoreWake
    \/ CorrelationBegin
    \/ CorrelationAwaitContext
    \/ CorrelationNotConnected
    \/ CorrelationAsyncWithRaises
    \/ ThreatIntelBegin
    \/ ThreatIntelAcquire
    \/ ThreatIntelFetchOk
    \/ ThreatIntelFetchFail

SpecPool == InitPool /\ [][NextPool]_vars

\* ------------------------------------------------------- ensemble scorer
\* MLService.predict_threat of backend/python/api/services/ml_service.py.
\* Classifier scores are in hundredths, the ensemble score and the
\* confidence in thousandths.
ModelNames == {"xgboost", "random_forest", "isolation_forest"}

\* What a classifier does when asked: it is not in self.models, it raises,
\* or it returns a raw output (a positive-class probability; for the
\* isolation forest a decision-function value).
NotConfigured == [kind |-> "absent", val |-> 0]
Raises == [kind |-> "raises", val |-> 0]
Returns(v) == [kind |-> "returns", val |-> v]

RawOutputs(name) ==
    IF name = "isolation_forest" THEN {-120, -80, 0, 80} ELSE {10, 50, 90, 100}

Outcomes(name) == {NotConfigured, Raises} \cup {Returns(v) : v \in RawOutputs(name)}

ModelInputs ==
    {m \in [ModelNames -> UNION {Outcomes(n) : n \in ModelNames}] :
        \A n \in ModelNames : m[n] \in Outcomes(n)}

Clamp(x, lo, hi) == IF x < lo THEN lo ELSE IF x > hi THEN hi ELSE x

RECURSIVE SumOf(_)
SumOf(f) ==
    IF DOMAIN f = {} THEN 0
    ELSE LET x == CHOOSE y \in DOMAIN f : TRUE
         IN f[x] + SumOf([y \in DOMAIN f \ {x} |-> f[y]])

\* floor(sqrt(n))
ISqrt(n) == CHOOSE r \in 0..1000 : r * r <= n /\ n < (r + 1) * (r + 1)

\* The score _predict_with_model computes from a raw output:
\* max(0, min(1, (1 - prediction) / 2)) for the isolation forest, the
\* probability itself otherwise.
ModelScore(name, raw) ==
    IF name = "isolation_forest" THEN Clamp((100 - raw) \div 2, 0, 100) ELSE raw

\* _predict_with_model: its own except clause turns an exception into the
\* neutral score 0.5.
predict_with_model(name, outcome) ==
    IF outcome.kind = "raises" THEN 50 ELSE ModelScore(name, outcome.val)

\* The predictions dictionary predict_threat collects: one entry per model
\* of self.models; _predict_with_model always returns, so the except clause
\* of the loop never drops one.
Predictions(models) ==
    [n \in {k \in ModelNames : models[k].kind # "absent"} |->
        predict_with_model(n, models[n])]

\* weights.get(model_name, 0.2), in hundredths.
ModelWeight(name) ==
    CASE name = "xgboost" -> 40
      [] name = "random_forest" -> 30
      [] name = "isolation_forest" -> 30
      [] OTHER -> 20

\* _ensemble_predictions: weighted average, in thousandths (rounded down).
ensemble_predictions(predictions) ==
    IF DOMAIN predictions = {} THEN 500
    ELSE LET weighted_sum == SumOf([n \in DOMAIN predictions |->
                                       predictions[n] * ModelWeight(n)])
             total_weight == SumOf([n \in DOMAIN predictions |-> ModelWeight(n)])
         IN IF total_weight > 0 THEN (10 * weighted_sum) \div total_weight ELSE 500

\* np.std(scores), the population standard deviation, in thousandths
\* (rounded down): sqrt(n * sum(s^2) - sum(s)^2) / n for scores in hundredths.
StdDev(predictions) ==
    LET n == Cardinality(DOMAIN predictions)
        sum == SumOf(predictions)
        squares == SumOf([k \in DOMAIN predictions |-> predictions[k] * predictions[k]])
    IN ISqrt((100 * (n * squares - sum * sum)) \div (n * n))

\* (Mutation of SpreadPenalty: the deviation is not doubled.)
SpreadPenaltySingle(std_score) == std_score

\* `std_score * 2`
SpreadPenalty(std_score) == std_score * 2

\* _calculate_confidence, in thousandths.
calculate_confidence(predictions) ==
    IF Cardinality(DOMAIN predictions) < 2 THEN 500
    ELSE Clamp(1000 - SpreadPenalty(StdDev(predictions)), 100, 1000)

\* predict_threat: raises when no prediction was collected, otherwise
\* returns the ensemble score and the confidence.
predict_threat(models) ==
    LET predictions == Predictions(models) IN
    IF DOMAIN predictions = {}
    THEN [fn |-> "predict_threat", raised |-> TRUE, predictions |-> predictions,
          threat_score |-> 0, confidence |-> 0]
    ELSE [fn |-> "predict_threat", raised |-> FALSE, predictions |-> predictions,
          threat_score |-> ensemble_predictions(predictions),
          confidence |-> calculate_confidence(predictions)]

PredictThreat ==
    /\ call.fn = "scorer"
    /\ ret = NoReturn
    /\ ret' = predict_threat(call.models)
    /\ UNCHANGED <<pipelineVars, tiVars, poolVars, call>>

\* _calculate_confidence applied to the predictions of the models.
CalculateConfidence ==
    /\ call.fn = "scorer"
    /\ ret = NoReturn
    /\ ret' = [fn |-> "_calculate_confidence", raised |-> FALSE,
               predictions |-> Predictions(call.models),
               confidence |-> calculate_confidence(Predictions(call.models))]
    /\ UNCHANGED <<pipelineVars, tiVars, poolVars, call>>

\* _ensemble_predictions applied to the predictions of the models.
EnsemblePredictions ==
    /\ call.fn = "scorer"
    /\ ret = NoReturn
    /\ ret' = [fn |-> "_ensemble_predictions", raised |-> FALSE,
               predictions |-> Predictions(call.models),
               threat_score |-> ensemble_predictions(Predictions(call.models))]
    /\ UNCHANGED <<pipelineVars, tiVars, poolVars, call>>

InitScorer ==
    /\ Idle /\ storeMode = "flaky"
    /\ call \in {[fn |-> "scorer", models |-> m] : m \in ModelInputs}
    /\ ret = NoReturn

NextScorer ==
    \/ PredictThreat
    \/ CalculateConfidence
    \/ EnsemblePredictions

SpecScorer == InitScorer /\ [][NextScorer]_vars

\* --------------------------------------------------- correlation engine
\* analyze_event_patterns and calculate_anomaly_score of
\* backend/python/api/routes/correlation.py.  Confidences and scores are in
\* hundredths, created_at in seconds.
RelatedEvent(type, severity, created_at) ==
    [event_type |-> type, severity |-> severity, created_at |-> created_at]

CurrentEvent(type, severity, risk) ==
    [threat_type |-> type, severity |-> severity, risk_score |-> risk]

\* Related-event lists of every content up to MaxRelated events, for events
\* of the current event's type or another one and of low or high severity.
RelatedKinds ==
    {RelatedEvent(t, sv, Absent) : t \in {"malware", "phishing"}, sv \in {"low", "high"}}

PatternInputs ==
    {[fn |-> "correlation", related |-> rel,
      current |-> CurrentEvent("malware", sv, Absent)] :
        rel \in UNION {[1..k -> RelatedKinds] : k \in 0..MaxRelated},
        sv \in {"absent", "CRITICAL"}}

\* A history of n events one minute or one hour apart, or without
\* timestamps.
History(n, spacing) ==
    [k \in 1..n |->
        RelatedEvent("malware", "low",
                     CASE spacing = "minutes" -> Num(60 * k)
                       [] spacing = "hours" -> Num(3600 * k)
                       [] OTHER -> Absent)]

AnomalyInputs ==
    {[fn |-> "correlation", related |-> History(n, spacing),
      current |-> CurrentEvent("malware", sv, risk)] :
        n \in {0, 2, 3, 5, 10}, spacing \in {"minutes", "hours", "untimed"},
        sv \in {"absent", "low", "high", "critical"},
        risk \in {Absent, Num(59), Num(60), Num(80)}}

\* str.lower() on the severity strings that occur.
Lower(str) ==
    CASE str = "CRITICAL" -> "critical"
      [] str = "HIGH" -> "high"
      [] str = "MEDIUM" -> "medium"
      [] str = "LOW" -> "low"
      [] OTHER -> str

\* severity_levels.get(event.get("severity", default).lower(), unknown)
SeverityLevel(severity, default, unknown) ==
    LET word == Lower(IF severity = "absent" THEN default ELSE severity) IN
    CASE word = "low" -> 1
      [] word = "medium" -> 2
      [] word = "high" -> 3
      [] word = "critical" -> 4
      [] OTHER -> unknown

MaxOf(S) == CHOOSE x \in S : \A y \in S : y <= x
MinOf(S) == CHOOSE x \in S : \A y \in S : x <= y

\* seq[-3:]
LastThree(seq) == SubSeq(seq, IF Len(seq) > 3 THEN Len(seq) - 2 ELSE 1, Len(seq))

\* sum(1 for et in event_types if et == current_type)
SameTypeCount(related, current) ==
    Cardinality({k \in DOMAIN related : related[k].event_type = current.threat_type})

\* (Mutation of IsRepetitive: five or more events count as a burst first.)
IsRepetitiveBelowBurst(total, same) == total >= 3 /\ same >= 3 /\ total < 5

\* `len(related_events) >= 3` and `same_type_count >= 3`
IsRepetitive(total, same) == total >= 3 /\ same >= 3

\* `len(severities) >= 2 and current_severity > max(severities[-3:])`
IsEscalation(related, current) ==
    LET severities == [k \in DOMAIN related |-> SeverityLevel(related[k].severity, "low", 1)]
        current_severity == SeverityLevel(current.severity, "medium", 2)
    IN /\ Len(severities) >= 2
       /\ current_severity >
             MaxOf({LastThree(severities)[k] : k \in DOMAIN LastThree(severities)})

PatternResult(pattern, confidence) ==
    [fn |-> "analyze_event_patterns", primary_pattern |-> pattern,
     pattern_confidence |-> confidence]

analyze_event_patterns(related, current) ==
    LET total == Len(related)
        same_type_count == SameTypeCount(related, current) IN
    IF total = 0 THEN PatternResult("single_event", 0)
    ELSE IF IsRepetitive(total, same_type_count)
    THEN PatternResult("repetitive_attack",
                       MinOf({90, (100 * same_type_count) \div total}))
    ELSE IF IsEscalation(related, current) THEN PatternResult("escalation", 80)
    ELSE IF total >= 5 THEN PatternResult("burst_activity", 70)
    ELSE PatternResult("sequence", 50)

\* The created_at values that are present.
Timestamps(related) ==
    {related[k].created_at.val : k \in {j \in DOMAIN related :
                                           related[j].created_at.kind = "num"}}

\* len(timestamps): the list keeps one entry per event that has a timestamp.
TimestampCount(related) ==
    Cardinality({k \in DOMAIN related : related[k].created_at.kind = "num"})

\* (Mutation of FrequencyScore: ten or more events score like five.)
FrequencyScoreFlat(event_count) == IF event_count >= 5 THEN 20 ELSE 0

\* `if event_count >= 10: score += 0.4 elif event_count >= 5: score += 0.2`
FrequencyScore(event_count) ==
    IF event_count >= 10 THEN 40 ELSE IF event_count >= 5 THEN 20 ELSE 0

calculate_anomaly_score(related, current) ==
    LET event_count == Len(related)
        current_severity == Lower(IF current.severity = "absent" THEN "medium"
                                  ELSE current.severity)
        current_risk == IF current.risk_score.kind = "absent" THEN 0
                        ELSE current.risk_score.val
        frequency == FrequencyScore(event_count)
        severity == IF current_severity \in {"high", "critical"} THEN 30 ELSE 0
        risk == IF current_risk >= 80 THEN 30 ELSE IF current_risk >= 60 THEN 20 ELSE 0
        clustered == IF /\ event_count >= 3
                        /\ TimestampCount(related) >= 3
                        /\ MaxOf(Timestamps(related)) - MinOf(Timestamps(related)) < 3600
                     THEN 20 ELSE 0
    IN IF event_count = 0 THEN 50
       ELSE MinOf({100, frequency + severity + risk + clustered})

AnalyzeEventPatterns ==
    /\ call.fn = "correlation"
    /\ ret = NoReturn
    /\ ret' = analyze_event_patterns(call.related, call.current)
    /\ UNCHANGED <<pipelineVars, tiVars, poolVars, call>>

CalculateAnomalyScore ==
    /\ call.fn = "correlation"
    /\ ret = NoReturn
    /\ ret' = [fn |-> "calculate_anomaly_score",
               anomaly_score |-> calculate_anomaly_score(call.related, call.current)]
    /\ UNCHANGED <<pipelineVars, tiVars, poolVars, call>>

\* Risk adjustments are exact in units of 1 / AdjustmentUnit: the pattern
\* multiplier in tenths, times (1 + 0.5 * anomaly) in two-hundredths, times
\* (1 + 0.3 * confidence) in thousandths; anomaly score and pattern
\* confidence are in hundredths.
AdjustmentUnit == 2000000

\* The anomaly scores calculate_anomaly_score returns and the confidences
\* analyze_event_patterns returns.
AnomalyScores == {0, 20, 50, 70, 100}
PatternConfidences == {0, 50, 75, 90}
PatternNames ==
    {"single_event", "sequence", "burst_activity", "repetitive_attack",
     "escalation", "absent"}

\* Two calls for the same pattern, to compare their results.
RiskInputs ==
    {[fn |-> "risk_adjustment", primary_pattern |-> p,
      anomaly_score |-> a, pattern_confidence |-> c,
      other_anomaly_score |-> a2, other_pattern_confidence |-> c2] :
        p \in PatternNames, a \in AnomalyScores, c \in PatternConfidences,
        a2 \in AnomalyScores, c2 \in PatternConfidences}

\* (Mutation of PatternMultiplier: repetitive and escalation exchanged.)
PatternMultiplierSwapped(pattern) ==
    CASE pattern = "repetitive_attack" -> 18
      [] pattern = "escalation" -> 15
      [] pattern = "burst_activity" -> 13
      [] pattern = "sequence" -> 11
      [] OTHER -> 10

\* pattern_multipliers.get(pattern, 1.0), in tenths; a missing
\* primary_pattern reads as "single_event".
PatternMultiplier(pattern) ==
    CASE pattern = "repetitive_attack" -> 15
      [] pattern = "escalation" -> 18
      [] pattern = "burst_activity" -> 13
      [] pattern = "sequence" -> 11
      [] pattern = "single_event" -> 10
      [] OTHER -> 10

calculate_risk_adjustment(pattern, confidence, anomaly_score) ==
    LET anomaly_adjustment == 200 + anomaly_score
        confidence_adjustment == 1000 + 3 * confidence
        final_adjustment ==
            PatternMultiplier(pattern) * anomaly_adjustment * confidence_adjustment
    IN MinOf({3 * AdjustmentUnit, MaxOf({AdjustmentUnit \div 2, final_adjustment})})

CalculateRiskAdjustment ==
    /\ call.fn = "risk_adjustment"
    /\ ret = NoReturn
    /\ ret' = [fn |-> "calculate_risk_adjustment",
               risk_adjustment |->
                   calculate_risk_adjustment(call.primary_pattern,
                       call.pattern_confidence, call.anomaly_score),
               other_risk_adjustment |->
                   calculate_risk_adjustment(call.primary_pattern,
                       call.other_pattern_confidence, call.other_anomaly_score)]
    /\ UNCHANGED <<pipelineVars, tiVars, poolVars, call>>

InitCorrelation ==
    /\ Idle /\ storeMode = "flaky"
    /\ call \in PatternInputs \cup AnomalyInputs \cup RiskInputs
    /\ ret = NoReturn

NextCorrelation ==
    \/ AnalyzeEventPatterns
    \/ CalculateAnomalyScore
    \/ CalculateRiskAdjustment

SpecCorrelation == InitCorrelation /\ [][NextCorrelation]_vars

\* ------------------------------------------------- feature preparation
\* MLService._prepare_features_for_prediction (ml_service.py 379-420).  A
\* feature dictionary is the sequence of its (name, value) items in
\* insertion order, which is the column order of pd.DataFrame([features]).
expected_features == 20

Str(s) == [kind |-> "str", val |-> s]

\* The keys extract_features writes, in the order it writes them.
ExtractedNames ==
    <<"src_ip_is_private", "src_ip_reputation", "dst_ip_is_private",
      "dst_ip_reputation", "src_port", "dst_port", "protocol", "bytes_sent",
      "bytes_received", "hour_of_day", "day_of_week", "is_weekend",
      "is_business_hours", "user_id", "has_user", "user_risk_score",
      "asset_id", "has_asset", "asset_criticality", "event_frequency",
      "user_event_frequency", "asset_event_frequency", "rare_event",
      "rare_user_event", "rare_asset_event">>

FeatureName(i) ==
    IF i \in DOMAIN ExtractedNames THEN ExtractedNames[i] ELSE "raw_data_field"

CategoricalNames == {"protocol", "user_id", "asset_id"}

\* The value of column i: numbers that differ from column to column, and
\* for the string-valued columns a category the encoder has seen, one it
\* has not seen, or the default "unknown".
FeatureValue(i, profile) ==
    IF FeatureName(i) \in CategoricalNames
    THEN Str(CASE profile = "seen" -> "tcp"
               [] profile = "unseen" -> "icmp"
               [] OTHER -> "unknown")
    ELSE Num(IF profile = "zeros" THEN 0 ELSE i)

Features(n, profile) ==
    [i \in 1..n |-> [name |-> FeatureName(i), value |-> FeatureValue(i, profile)]]

\* feature_extractor state: the label encoders and scaler of a fitted
\* extractor, or none; a fitted scaler accepts the frame or raises
\* ValueError (it was fitted on another shape).
FeatureInputs ==
    {[fn |-> "prepare_features", features |-> Features(n, profile),
      is_fitted |-> fitted, scaler |-> outcome] :
        n \in 0..MaxFeatures, profile \in {"seen", "unseen", "zeros"},
        fitted \in BOOLEAN, outcome \in {"transforms", "ValueError"}}

\* label_encoders[col].transform: the code of a fitted category, ValueError
\* (handled as 0) otherwise; only "protocol" has an encoder here.
LabelEncoded(col, is_fitted) ==
    IF col.value.kind # "str" THEN col.value.val
    ELSE IF is_fitted /\ col.name = "protocol" /\ col.value.val = "tcp" THEN 1
    ELSE 0

\* (Mutation of SelectColumns: the last N columns are kept.)
SelectLastColumns(columns) ==
    IF Len(columns) > expected_features
    THEN SubSeq(columns, Len(columns) - expected_features + 1, Len(columns))
    ELSE columns \o [i \in 1..(expected_features - Len(columns)) |-> 0]

\* df.iloc[:, :expected_features], or the feature_i = 0 columns appended.
SelectColumns(columns) ==
    IF Len(columns) > expected_features
    THEN SubSeq(columns, 1, expected_features)
    ELSE columns \o [i \in 1..(expected_features - Len(columns)) |-> 0]

\* StandardScaler.transform, (x - mean_) / scale_, in hundredths, for a
\* scaler with mean 1 and scale 2 in every column.
ScalerTransform(x) == ((x - 1) * 100) \div 2

\* scaled_features[0]: the scaled row, or df.values[0] when the extractor
\* is not fitted or scaling raises ValueError.
prepare_features_for_prediction(features, is_fitted, scaler) ==
    LET encoded == [i \in DOMAIN features |-> LabelEncoded(features[i], is_fitted)]
        df == SelectColumns(encoded)
    IN IF is_fitted /\ scaler = "transforms"
       THEN [i \in DOMAIN df |-> ScalerTransform(df[i])]
       ELSE df

PrepareFeatures ==
    /\ call.fn = "prepare_features"
    /\ ret = NoReturn
    /\ ret' = [fn |-> "prepare_features", calls |-> 1,
               vector |-> prepare_features_for_prediction(call.features,
                              call.is_fitted, call.scaler)]
    /\ UNCHANGED <<pipelineVars, tiVars, poolVars, call>>

\* The same features prepared a second time (one call per model).
PrepareFeaturesAgain ==
    /\ call.fn = "prepare_features"
    /\ ret.fn = "prepare_features"
    /\ ret.calls = 1
    /\ ret' = [fn |-> "prepare_features", calls |-> 2, vector |-> ret.vector,
               again |-> prepare_features_for_prediction(call.features,
                             call.is_fitted, call.scaler)]
    /\ UNCHANGED <<pipelineVars, tiVars, poolVars, call>>

InitFeatures ==
    /\ Idle /\ storeMode = "flaky"
    /\ call \in FeatureInputs
    /\ ret = NoReturn

NextFeatures ==
    \/ PrepareFeatures
    \/ PrepareFeaturesAgain

SpecFeatures == InitFeatures /\ [][NextFeatures]_vars

\* ------------------------------------------------ correlation analysis
\* The /analyze route (correlation.py 41-111) with parse_time_window,
\* find_related_events, determine_correlation_strength and
\* analyze_frequency_patterns.  A time-window string is the sequence of its
\* characters; a time_delta is a number of seconds.
Digits == {"0", "1", "2", "3", "4", "5", "6", "7", "8", "9"}

DigitValue(ch) ==
    CASE ch = "0" -> 0 [] ch = "1" -> 1 [] ch = "2" -> 2 [] ch = "3" -> 3
      [] ch = "4" -> 4 [] ch = "5" -> 5 [] ch = "6" -> 6 [] ch = "7" -> 7
      [] ch = "8" -> 8 [] OTHER -> 9

\* int(digits)
RECURSIVE DecimalValue(_)
DecimalValue(chars) ==
    IF chars = <<>> THEN 0
    ELSE 10 * DecimalValue(SubSeq(chars, 1, Len(chars) - 1))
            + DigitValue(chars[Len(chars)])

\* str.lower() on one character of a time window.
LowerChar(ch) ==
    CASE ch = "S" -> "s" [] ch = "M" -> "m" [] ch = "H" -> "h" [] ch = "D" -> "d"
      [] OTHER -> ch

\* The request's time_window: the default, other well-formed windows, zero
\* windows, an upper-case unit, and strings the pattern does not match
\* (the empty string among them).
TimeWindows ==
    {<<"5", "m">>, <<"3", "0", "s">>, <<"1", "h">>, <<"2", "d">>, <<"1", "0", "M">>,
     <<"0", "s">>, <<"0", "m">>, <<"0", "0", "h">>,
     <<>>, <<"5">>, <<"m">>, <<"5", "x">>, <<"m", "5">>, <<"1", ".", "5", "h">>}

\* re.match(r'^(\d+)([smhd])$', time_window.lower())
Matches(chars) ==
    /\ Len(chars) >= 2
    /\ \A k \in 1..(Len(chars) - 1) : chars[k] \in Digits
    /\ LowerChar(chars[Len(chars)]) \in {"s", "m", "h", "d"}

UnitSeconds(unit) ==
    CASE unit = "s" -> 1 [] unit = "m" -> 60 [] unit = "h" -> 3600 [] OTHER -> 86400

\* parse_time_window: timedelta(minutes=5) for an empty or unmatched
\* string, otherwise value times the unit; in seconds.
parse_time_window(time_window) ==
    IF time_window = <<>> \/ ~Matches(time_window) THEN 5 * 60
    ELSE DecimalValue(SubSeq(time_window, 1, Len(time_window) - 1))
            * UnitSeconds(LowerChar(time_window[Len(time_window)]))

\* find_related_events: `await db_service.get_connection_context()` yields
\* a checked-out connection, `async with` on it raises, and the except
\* clause returns []; an uninitialized service raises earlier, with the
\* same result.  No row of the store is ever read: stored, the rows of
\* security.events that match the correlation key within the window, never
\* reaches the caller.
find_related_events(connected, stored) == <<>>

\* determine_correlation_strength: event_count / (total_seconds / 3600)
\* raises ZeroDivisionError for a zero time_delta.
determine_correlation_strength(event_count, seconds) ==
    IF seconds = 0 THEN "ZeroDivisionError"
    ELSE IF 3600 * event_count >= 10 * seconds THEN "very_strong"
    ELSE IF 3600 * event_count >= 5 * seconds THEN "strong"
    ELSE IF 3600 * event_count >= 2 * seconds THEN "moderate"
    ELSE IF 2 * 3600 * event_count >= seconds THEN "weak"
    ELSE "very_weak"

\* analyze_frequency_patterns: {} for a zero time_delta, otherwise the
\* dictionary with the events-per-hour level.
analyze_frequency_patterns(event_count, seconds) ==
    IF seconds = 0 THEN [total_events |-> 0, frequency_level |-> "empty"]
    ELSE [total_events |-> event_count,
          frequency_level |->
              IF 3600 * event_count >= 50 * seconds THEN "very_high"
              ELSE IF 3600 * event_count >= 20 * seconds THEN "high"
              ELSE IF 3600 * event_count >= 5 * seconds THEN "moderate"
              ELSE IF 3600 * event_count >= seconds THEN "low"
              ELSE "very_low"]

\* Requests to /analyze, with the database service reachable or not.
AnalysisInputs ==
    {[fn |-> "analyze_correlation", time_window |-> w, connected |-> c,
      stored |-> History(n, "minutes"),
      current |-> CurrentEvent("malware", sv, risk)] :
        w \in TimeWindows, c \in BOOLEAN, n \in {0, 4},
        sv \in {"low", "critical"}, risk \in {Num(20), Num(95)}}

\* Arguments of the two rate functions: an event count and a time_delta
\* that parse_time_window returned.
RateInputs ==
    {[fn |-> "rate", event_count |-> n, time_window |-> w] :
        n \in {0, 1, 4, 100}, w \in TimeWindows}

HttpError(status) ==
    [fn |-> "analyze_correlation", status |-> status, pattern |-> "none",
     anomaly_score |-> 0, risk_adjustment |-> 0, related_events_count |-> 0,
     correlation_strength |-> "none", frequency_level |-> "none"]

\* analyze_correlation: any exception becomes HTTP 500.
analyze_correlation(request) ==
    LET time_delta == parse_time_window(request.time_window)
        related_events == find_related_events(request.connected, request.stored)
        pattern_analysis == analyze_event_patterns(related_events, request.current)
        anomaly_score == calculate_anomaly_score(related_events, request.current)
        correlation_strength ==
            determine_correlation_strength(Len(related_events), time_delta)
    IN IF ~request.connected THEN HttpError(500)
       ELSE IF correlation_strength = "ZeroDivisionError" THEN HttpError(500)
       ELSE [fn |-> "analyze_correlation", status |-> 200,
             pattern |-> pattern_analysis.primary_pattern,
             anomaly_score |-> anomaly_score,
             risk_adjustment |->
                 calculate_risk_adjustment(pattern_analysis.primary_pattern,
                     pattern_analysis.pattern_confidence, anomaly_score),
             related_events_count |-> Len(related_events),
             correlation_strength |-> correlation_strength,
             frequency_level |->
                 analyze_frequency_patterns(Len(related_events),
                                            time_delta).frequency_level]

\* One request served.  A handler that got past ensure_connected left one
\* connection of the pool checked out (find_related_events).
AnalyzeCorrelation ==
    /\ call.fn = "analyze_correlation"
    /\ ret = NoReturn
    /\ call.connected => ~PoolExhausted
    /\ ret' = analyze_correlation(call)
    /\ pool' = IF call.connected THEN pool + 1 ELSE pool
    /\ UNCHANGED <<pipelineVars, tiVars, requests, call>>

DetermineCorrelationStrength ==
    /\ call.fn = "rate"
    /\ ret = NoReturn
    /\ ret' = [fn |-> "determine_correlation_strength",
               correlation_strength |->
                   determine_correlation_strength(call.event_count,
                       parse_time_window(call.time_window))]
    /\ UNCHANGED <<pipelineVars, tiVars, poolVars, call>>

AnalyzeFrequencyPatterns ==
    /\ call.fn = "rate"
    /\ ret = NoReturn
    /\ ret' = [fn |-> "analyze_frequency_patterns",
               frequency_analysis |->
                   analyze_frequency_patterns(call.event_count,
                       parse_time_window(call.time_window))]
    /\ UNCHANGED <<pipelineVars, tiVars, poolVars, call>>

InitAnalysis ==
    /\ Idle /\ storeMode = "flaky"
    /\ call \in AnalysisInputs \cup RateInputs
    /\ ret = NoReturn

NextAnalysis ==
    \/ AnalyzeCorrelation
    \/ DetermineCorrelationStrength
    \/ AnalyzeFrequencyPatterns

SpecAnalysis == InitAnalysis /\ [][NextAnalysis]_vars

\* ------------------------------------------------- writer and pool users
\* The pipeline next to /analyze requests, which use the same pool.  The
\* event loop runs the writer task whenever it can take a step: a queued
\* task is taken, an attempt that has a connection and a reachable store
\* completes, and an attempt against a store that is down raises.
NextWriter ==
    \/ Initialize
    \/ CloseBegin
    \/ CloseEnd
    \/ \E i \in 1..MaxWriterTasks : WriterGet(i)
    \/ \E i \in 1..MaxWriterTasks : WriterAttemptOk(i)
    \/ \E i \in 1..MaxWriterTasks : WriterAttemptFail(i)
    \/ \E i \in 1..MaxWriterTasks : WriterUnwind(i)
    \/ ConsumerPoll(StorableInputs)
    \/ ConsumerNextInBatch(StorableInputs)
    \/ ConsumerPutResume
    \/ ConsumerExit
    \/ CorrelationBegin
    \/ CorrelationAwaitContext
    \/ CorrelationNotConnected
    \/ CorrelationAsyncWithRaises

WriterFairness ==
    /\ WF_vars(\E i \in 1..MaxWriterTasks : WriterGet(i))
    /\ WF_vars(\E i \in 1..MaxWriterTasks : WriterAttemptOk(i))
    /\ WF_vars(storeMode = "down" /\ \E i \in 1..MaxWriterTasks : WriterAttemptFail(i))

SpecWriter == Init /\ [][NextWriter]_vars /\ WriterFairness

\* ----------------------------------------------------------- end to end
\* One kind of message on the stream: a critical event with risk_score 9.5
\* and a source_ip (EventData), and the /analyze request for that event
\* while four earlier events of its type lie in the five-minute window.
EndToEndInputs == { <<"e1", Num(95), "critical">> }

EndToEndRequest ==
    [fn |-> "analyze_correlation", time_window |-> <<"5", "m">>,
     connected |-> TRUE, stored |-> History(4, "minutes"),
     current |-> CurrentEvent("malware", "critical", Num(95))]

InitEndToEnd == Idle /\ storeMode = "flaky" /\ call = EndToEndRequest /\ ret = NoReturn

\* The pipeline, and the correlation analysis of an event once it has been
\* ingested; nothing in the pipeline calls the correlation engine.
NextEndToEnd ==
    \/ Initialize
    \/ CloseBegin
    \/ CloseEnd
    \/ \E i \in 1..MaxWriterTasks : WriterGet(i)
    \/ \E i \in 1..MaxWriterTasks : WriterAttemptOk(i)
    \/ \E i \in 1..MaxWriterTasks : WriterAttemptUpsertFails(i)
    \/ \E i \in 1..MaxWriterTasks : WriterAttemptFail(i)
    \/ \E i \in 1..MaxWriterTasks : WriterUnwind(i)
    \/ ConsumerPoll(EndToEndInputs)
    \/ ConsumerNextInBatch(EndToEndInputs)
    \/ ConsumerPutResume
    \/ ConsumerExit
    \/ (handled # {} /\ AnalyzeCorrelation)

SpecEndToEnd == InitEndToEnd /\ [][NextEndToEnd]_vars /\ WriterFairness

\* ------------------------------------------------------ claim vocabulary
Rows == DOMAIN eventsTable

Committed(o) == \E k \in Rows : eventsTable[k].off = o

InQueue(o) == \E k \in DOMAIN db_operation_queue : db_operation_queue[k].off = o

HeldByWriter(o) ==
    \E i \in 1..MaxWriterTasks : writers[i].pc = "attempt" /\ writers[i].ev.off = o

LiveWriters == {i \in 1..MaxWriterTasks : writers[i].pc \in {"get", "attempt"}}

DropLog(o) ==
    [level |-> "error", msg |-> "All attempts to store security event failed",
     event_id |-> "n/a", off |-> o]

\* Error-level records written about the task of offset o.
ErrorLogsOf(o) == {l \in BagToSet(logs) : l.level = "error" /\ l.off = o}

ErrorLogCount(o) ==
    LET RECURSIVE Sum(_)
        Sum(S) == IF S = {} THEN 0
                  ELSE LET l == CHOOSE x \in S : TRUE
                       IN CopiesIn(l, logs) + Sum(S \ {l})
    IN Sum(ErrorLogsOf(o))

\* ------------------------------------------------------------------- C1
\* C1: an enqueue that meets a full queue does not wait for space: the event
\* is written to the store directly, so every event for which
\* queue_database_operation was called and which did not get onto the queue
\* has its row in the events table.
C1_FullQueueWritesDirectly ==
    \A o \in Offsets :
        (enqueueAttempts[o] > 0 /\ o \notin accepted) => Committed(o)

\* ------------------------------------------------------------------- C2
\* C2 as stated: a task dropped after its retries were exhausted was retried
\* max_retries times, a retry being an attempt after a failed attempt.
C2_RetriesEqualMaxRetries ==
    \A o \in Offsets :
        CopiesIn(DropLog(o), logs) > 0 => attempts[o] - 1 = max_retries

\* C2 (amended): store_security_event makes at most max_retries attempts for
\* a task (the first attempt included, so max_retries - 1 retries); a task is
\* dropped exactly when its attempt number max_retries has failed, with
\* exactly one error-level log and the task no longer held by the writer;
\* against a store on which every attempt fails, the task that reached
\* attempt number max_retries has been dropped.
C2_AttemptsBoundedThenDropped ==
    \A o \in Offsets :
        /\ attempts[o] <= max_retries
        /\ CopiesIn(DropLog(o), logs) <= 1
        /\ CopiesIn(DropLog(o), logs) = 1 =>
              /\ o \in accepted => ErrorLogCount(o) = 1
              /\ attempts[o] = max_retries
              /\ ~HeldByWriter(o)
              /\ ~Committed(o)
        /\ (storeMode = "down" /\ attempts[o] = max_retries) =>
              CopiesIn(DropLog(o), logs) = 1

\* A task has been dropped by the writer against the always-failing store.
C2_Witness ==
    /\ storeMode = "down"
    /\ \E o \in Offsets : attempts[o] = max_retries /\ CopiesIn(DropLog(o), logs) = 1

\* ------------------------------------------------------------------- C3
\* C3: no accepted event is lost silently: an accepted event that is no
\* longer on its way to the store (queued or held by the writer of a service
\* that has not closed) is committed or reported by an error-level log that
\* carries the fields identifying the task.
C3_NoSilentLoss ==
    \A o \in accepted :
        \/ closePc # "closed" /\ (InQueue(o) \/ HeldByWriter(o))
        \/ Committed(o)
        \/ \E l \in ErrorLogsOf(o) : l.event_id # "n/a"

\* ------------------------------------------------------------------- C4
\* C4: once close has returned, every task that was queued, or held by the
\* writer, when close began has been stored (or given up on by the retry
\* loop, with its error log).
C4_CloseDrainsQueue ==
    closePc = "closed" =>
        \A o \in queueAtClose : Committed(o) \/ CopiesIn(DropLog(o), logs) > 0

\* ------------------------------------------------------------------- C5
\* C5: at any time at most one writer task drains the queue, it is the task
\* the processor refers to while its flag is set, and at most one task taken
\* from the queue is being stored.
C5_SingleSequentialWriter ==
    /\ Cardinality(LiveWriters) <= 1
    /\ Cardinality({o \in Offsets : HeldByWriter(o)}) <= 1
    /\ \A i \in LiveWriters : queue_processor_running /\ queue_processor_task = i

\* A restarted writer stores a task while the task stopped before it is
\* still unwinding.
C5_Witness ==
    \E i, j \in 1..MaxWriterTasks :
        /\ writers[i].pc = "attempt"
        /\ writers[i].attempt > 0
        /\ writers[j].pc = "cancelling"

\* ------------------------------------------------------------------- C6
\* C6: while the service is running the consumer thread is in its loop, and
\* every message delivered so far was either rejected by the decoder (poll
\* error logged), or went through its handler, or is the one whose enqueue
\* is waiting: no failure on an earlier message ended the loop.
C6_ConsumerSurvivesFailures ==
    /\ running => consumerPc \in {"poll", "for", "put_wait"}
    /\ consumerPc = "closed" => ~running
    /\ \A o \in 1..delivered :
          \/ o \in handled
          \/ ~stream[o].decodable
          \/ consumerPc = "put_wait" /\ cur.off = o

\* While running, a message was handled and queued after an earlier one
\* failed in the decoder or in its handler.
C6_Witness ==
    /\ running
    /\ \E o1, o2 \in 1..delivered :
          /\ o1 < o2
          /\ \/ ~stream[o1].decodable
             \/ \E l \in ErrorLogsOf(o1) : l.msg = "Error processing security event"
          /\ o2 \in accepted

\* ------------------------------------------------------------------- C7
\* C7: every handled message that carries an event_id got exactly one
\* queue_database_operation call.
C7_ExactlyOneEnqueueAttempt ==
    \A o \in handled :
        stream[o].ev.event_id \notin {"absent", "null"} => enqueueAttempts[o] = 1

\* ------------------------------------------------------------------- C8
\* C8: a message without event_id is skipped: no incident is created for
\* it, it is not queued and no row is written for it.
C8_MissingEventIdSkipped ==
    \A o \in 1..delivered :
        (stream[o].decodable /\ stream[o].ev.event_id \in {"absent", "null"}) =>
            /\ \A k \in DOMAIN incidents : incidents[k].off # o
            /\ enqueueAttempts[o] = 0
            /\ ~Committed(o)

\* ------------------------------------------------------------------- C9
\* C9: however often the same event is processed, at most one incident has
\* its event_id as source_event_id.
C9_AtMostOneIncidentPerEvent ==
    \A k1, k2 \in DOMAIN incidents :
        (/\ incidents[k1].source_event_id = incidents[k2].source_event_id
         /\ incidents[k1].source_event_id \notin {"absent", "null"}
         /\ incidents[k1].risk_score = incidents[k2].risk_score) => k1 = k2

\* ------------------------------------------------------------------ C10
\* C10: persisting the same event twice leaves one row for it.
C10_OneRowPerEvent ==
    \A k1, k2 \in Rows :
        (/\ eventsTable[k1].event_id = eventsTable[k2].event_id
         /\ eventsTable[k1].event_id \notin {"absent", "null"}
         /\ eventsTable[k1].ml_score = eventsTable[k2].ml_score) => k1 = k2

\* ------------------------------------------------------------------- C12
\* Upserts of the key k = <<type, value>> executed so far, in order.
UpsertsOf(k) == SelectSeq(upserts, LAMBDA u : <<u.type, u.value>> = k)

UpsertedKeys == {<<upserts[i].type, upserts[i].value>> : i \in DOMAIN upserts}

RowsOf(k) == {r \in threat_intel : <<r.indicator_type, r.indicator_value>> = k}

MaxConfidence(us) ==
    CHOOSE c \in {us[i].confidence : i \in DOMAIN us} :
        \A i \in DOMAIN us : us[i].confidence <= c

\* C12: after any sequence of upserts of one (indicator_type,
\* indicator_value) there is exactly one row for it, its confidence is the
\* largest confidence upserted so far, its first_seen is the time of the
\* first upsert; and from one state to the next the confidence of a row does
\* not decrease, its first_seen does not change and its last_seen does not
\* move backwards.
C12_UpsertKeepsMaxConfidence ==
    /\ [](\A k \in UpsertedKeys :
            /\ Cardinality(RowsOf(k)) = 1
            /\ \A r \in RowsOf(k) :
                  /\ r.confidence_score = MaxConfidence(UpsertsOf(k))
                  /\ r.first_seen = UpsertsOf(k)[1].at
                  /\ r.last_seen = UpsertsOf(k)[Len(UpsertsOf(k))].at)
    /\ [][\A r \in threat_intel :
            \E q \in threat_intel' :
               /\ q.indicator_type = r.indicator_type
               /\ q.indicator_value = r.indicator_value
               /\ q.confidence_score >= r.confidence_score
               /\ q.first_seen = r.first_seen
               /\ q.last_seen >= r.last_seen]_vars

\* An indicator upserted with confidence 0.6 and then 0.4 is stored with 0.6.
C12_Witness ==
    /\ Len(upserts) = 2
    /\ upserts[1].confidence = 60 /\ upserts[2].confidence = 40
    /\ <<upserts[1].type, upserts[1].value>> = <<upserts[2].type, upserts[2].value>>
    /\ \E r \in threat_intel : r.confidence_score = 60 /\ r.last_seen > r.first_seen

\* ------------------------------------------------------------------- C16
\* Upserts executed by the store of the event of offset o, of one type.
UpsertsFor(o, type) == SelectSeq(upserts, LAMBDA u : u.off = o /\ u.type = type)

\* What the claim expects of one field of a stored event.
FieldUpserted(ev, field, type) ==
    IF GetRisk(ev).val >= 80 /\ field # "absent" /\ field # ""
    THEN /\ Len(UpsertsFor(ev.off, type)) = 1
         /\ UpsertsFor(ev.off, type)[1].value = field
    ELSE UpsertsFor(ev.off, type) = <<>>

\* C16: a stored event has indicators upserted only when its risk score is
\* at least 8.0, and then exactly one per non-empty field among source_ip
\* (type ip), domain (type domain) and file_hash (type hash), and none of any
\* other type.
C16_IndicatorsFromNonEmptyFields ==
    call.fn = "store_security_event" =>
        \A k \in DOMAIN call.events :
            LET ev == call.events[k] IN
            ev # NoEvent =>
                /\ FieldUpserted(ev, ev.source_ip, "ip")
                /\ FieldUpserted(ev, ev.domain, "domain")
                /\ FieldUpserted(ev, ev.file_hash, "hash")
                /\ \A i \in DOMAIN upserts :
                      upserts[i].off = ev.off =>
                          upserts[i].type \in {"ip", "domain", "hash"}

\* A stored event of risk 9.5 with an empty source_ip, a domain and a file
\* hash, and one of risk 7.5 that carries all three fields.
C16_Witness ==
    /\ call.fn = "store_security_event"
    /\ \E k \in DOMAIN call.events :
          /\ call.events[k].risk_score = Num(95)
          /\ call.events[k].source_ip = ""
          /\ Len(UpsertsFor(call.events[k].off, "domain")) = 1
          /\ Len(UpsertsFor(call.events[k].off, "hash")) = 1
    /\ \E k \in DOMAIN call.events :
          /\ call.events[k].risk_score = Num(75)
          /\ call.events[k].source_ip = "10.0.0.5"
          /\ call.events[k].domain = "evil.example"
          /\ call.events[k].file_hash = "abc123"

\* ------------------------------------------------------------------- C14
\* The decoded message of a handled offset.
HandledEvents == {stream[o].ev : o \in {h \in handled : stream[h].decodable}}

\* The risk score on the 0..10 scale, in tenths; an absent key counts as 0.0.
NumericRisk(ev) == ev.risk_score.kind # "null"
RiskTenths(ev) == IF ev.risk_score.kind = "num" THEN ev.risk_score.val ELSE 0

IncidentsOf(ev) == {k \in DOMAIN incidents : incidents[k].off = ev.off}

SeverityBucket(risk) ==
    CASE risk >= 90 -> "critical"
      [] risk >= 70 /\ risk < 90 -> "high"
      [] risk >= 50 /\ risk < 70 -> "medium"
      [] OTHER -> "low"

\* C15: the severity of every stored event row and of every incident is
\* the bucket of the event's risk score, whatever severity the message
\* carried.
C15_SeverityIsRiskBucket ==
    /\ \A k \in DOMAIN eventsTable :
          eventsTable[k].severity = SeverityBucket(RiskTenths(stream[eventsTable[k].off].ev))
    /\ \A k \in DOMAIN incidents :
          incidents[k].severity = SeverityBucket(incidents[k].risk_score)

\* ------------------------------------------------------------------- C11
\* C11: whenever a store_security_event call, a find_related_events call or
\* a threat-intelligence query has ended, its caller holds no connection
\* (the number checked out is what it was before the call), and the writer
\* holds none while it sleeps between retries.
C11_ConnectionsReleased ==
    /\ \A r \in Requesters : requests[r].pc = "idle" => requests[r].held = 0
    /\ requests["store"].pc = "sleep" => requests["store"].held = 0

\* ------------------------------------------------------------------- C17
\* The classifiers of a scorer call by what they did.
Failed == {n \in ModelNames : call.models[n].kind = "raises"}
Scored == {n \in ModelNames : call.models[n].kind = "returns"}

\* The scores of the classifiers that returned one.
ReturnedScores == [n \in Scored |-> ModelScore(n, call.models[n].val)]

\* C17: when a classifier fails and another returns a score, predict_threat
\* returns a result, and its ensemble score and confidence are those of the
\* classifiers that returned a score alone.
C17_FailedClassifierContributesNothing ==
    (ret.fn = "predict_threat" /\ Failed # {} /\ Scored # {}) =>
        /\ ~ret.raised
        /\ DOMAIN ret.predictions = Scored
        /\ ret.threat_score = ensemble_predictions(ReturnedScores)
        /\ ret.confidence = calculate_confidence(ReturnedScores)

\* ------------------------------------------------------------------- C18
\* C18: when no classifier produces a score (none is configured, or every
\* configured one fails), predict_threat does not raise and returns the
\* threat score 0.5 with confidence 0.1.
C18_NoScoreGivesNeutralResult ==
    (ret.fn = "predict_threat" /\ Scored = {}) =>
        /\ ~ret.raised
        /\ ret.threat_score = 500
        /\ ret.confidence = 100

\* ------------------------------------------------------------------- C19
\* n^2 times the variance of the scores (in hundredths) of a dictionary.
ScaledVariance(predictions) ==
    Cardinality(DOMAIN predictions) *
        SumOf([k \in DOMAIN predictions |-> predictions[k] * predictions[k]])
    - SumOf(predictions) * SumOf(predictions)

\* C19: the confidence of fewer than two scores is 0.5; that of two or more
\* is 1 - 2 * stdev clamped to [0.1, 1.0], to the thousandth: with
\* d = 1 - confidence, (d / 2)^2 is at most the variance, and unless the
\* confidence is the lower clamp 0.1 the variance is below ((d + 0.002) / 2)^2.
\* Hence identical scores give at least 0.9 and the scores 0.1 and 0.9 give
\* at most 0.3.
C19_ConfidenceFromSpread ==
    ret.fn \in {"_calculate_confidence", "predict_threat"} /\ ~ret.raised =>
        LET p == ret.predictions
            n == Cardinality(DOMAIN p)
            d == 1000 - ret.confidence
        IN /\ n < 2 => ret.confidence = 500
           /\ n >= 2 =>
                /\ ret.confidence >= 100 /\ ret.confidence <= 1000
                /\ d * d * n * n <= 400 * ScaledVariance(p)
                /\ ret.confidence > 100 =>
                      400 * ScaledVariance(p) < (d + 2) * (d + 2) * n * n
                /\ (\A a, b \in DOMAIN p : p[a] = p[b]) => ret.confidence >= 900
                /\ (n = 2 /\ {p[a] : a \in DOMAIN p} = {10, 90}) => ret.confidence <= 300

\* The confidence of the two scores 0.1 and 0.9 has been computed (0.2).
C19_Witness ==
    /\ ret.fn = "_calculate_confidence"
    /\ Cardinality(DOMAIN ret.predictions) = 2
    /\ {ret.predictions[a] : a \in DOMAIN ret.predictions} = {10, 90}
    /\ ret.confidence = 200

\* ------------------------------------------------------------------- C20
\* Related events of the current event's type.
SameType == {k \in DOMAIN call.related :
               call.related[k].event_type = call.current.threat_type}

Total == Len(call.related)

\* Three or more related events of which three or more share the type.
Repetitive == Total >= 3 /\ Cardinality(SameType) >= 3

\* Every related event is of low severity and the current one critical: an
\* escalation however the recent events are chosen.
PlainEscalation ==
    /\ Total >= 2
    /\ \A k \in DOMAIN call.related : call.related[k].severity = "low"
    /\ call.current.severity \in {"critical", "CRITICAL"}

\* C20: analyze_event_patterns returns the first matching pattern in the
\* order repetitive_attack, escalation, burst_activity, sequence,
\* single_event: the repetitive rule wins whenever it matches (also with
\* five or more events) with confidence min(0.9, same_type / total), an
\* escalation wins over a burst, a burst (five or more events) over a
\* sequence, and without related events the result is single_event.
C20_FirstMatchingPattern ==
    ret.fn = "analyze_event_patterns" =>
        /\ Total = 0 <=> ret.primary_pattern = "single_event"
        /\ Repetitive <=> ret.primary_pattern = "repetitive_attack"
        /\ Repetitive =>
              \/ /\ 10 * Cardinality(SameType) >= 9 * Total
                 /\ ret.pattern_confidence = 90
              \/ /\ 10 * Cardinality(SameType) < 9 * Total
                 /\ ret.pattern_confidence * Total <= 100 * Cardinality(SameType)
                 /\ 100 * Cardinality(SameType) < (ret.pattern_confidence + 1) * Total
        /\ (PlainEscalation /\ ~Repetitive) => ret.primary_pattern = "escalation"
        /\ ret.primary_pattern = "escalation" => Total >= 2
        /\ ret.primary_pattern = "burst_activity" => Total >= 5
        /\ ret.primary_pattern = "sequence" => Total >= 1 /\ Total < 5
        /\ ret.primary_pattern \in {"repetitive_attack", "escalation", "burst_activity",
                                     "sequence", "single_event"}

\* Six related events of the current event's type: repetitive_attack with
\* confidence 0.9, although a burst would match.
C20_Witness ==
    /\ ret.fn = "analyze_event_patterns"
    /\ Total = 6 /\ Cardinality(SameType) = 6
    /\ ret.primary_pattern = "repetitive_attack"
    /\ ret.pattern_confidence = 90

\* ------------------------------------------------------------------- C13
\* C13: the ensemble threat score, the scorer confidence, the anomaly score
\* and the confidence of every stored threat indicator lie in [0, 1],
\* whatever the risk score of the event is.
C13_ScoresWithinUnitInterval ==
    /\ \A r \in threat_intel : r.confidence_score >= 0 /\ r.confidence_score <= 100
    /\ (ret.fn = "predict_threat" /\ ~ret.raised) =>
          /\ ret.threat_score >= 0 /\ ret.threat_score <= 1000
          /\ ret.confidence >= 0 /\ ret.confidence <= 1000
    /\ ret.fn = "calculate_anomaly_score" =>
          ret.anomaly_score >= 0 /\ ret.anomaly_score <= 100

\* ---------------------------------------------------------------- C21
\* The multiplier the claim gives each pattern, in tenths.
ClaimedMultiplier(pattern) ==
    CASE pattern = "single_event" -> 10
      [] pattern = "sequence" -> 11
      [] pattern = "burst_activity" -> 13
      [] pattern = "repetitive_attack" -> 15
      [] pattern = "escalation" -> 18
      [] OTHER -> 10

\* 1.0 x multiplier x (1 + 0.5 anomaly) x (1 + 0.3 confidence), unclamped.
ClaimedProduct(pattern, anomaly, confidence) ==
    ClaimedMultiplier(pattern) * (100 + anomaly \div 2) * (1000 + 3 * confidence)
        * (AdjustmentUnit \div 1000000)

\* C21: the risk adjustment is the product 1.0 x pattern multiplier x
\* (1 + 0.5 x anomaly_score) x (1 + 0.3 x pattern_confidence) clamped to
\* [0.5, 3.0]; it does not decrease when the anomaly score and the pattern
\* confidence do not decrease; escalation with anomaly score 1.0 and
\* confidence 0.9 gives 3.0.
C21_RiskAdjustmentClampedProduct ==
    ret.fn = "calculate_risk_adjustment" =>
        LET product == ClaimedProduct(call.primary_pattern, call.anomaly_score,
                                      call.pattern_confidence) IN
        /\ ret.risk_adjustment =
               (IF product > 3 * AdjustmentUnit THEN 3 * AdjustmentUnit
                ELSE IF 2 * product < AdjustmentUnit THEN AdjustmentUnit \div 2
                ELSE product)
        /\ 2 * ret.risk_adjustment >= AdjustmentUnit
        /\ ret.risk_adjustment <= 3 * AdjustmentUnit
        /\ (/\ call.anomaly_score <= call.other_anomaly_score
            /\ call.pattern_confidence <= call.other_pattern_confidence)
               => ret.risk_adjustment <= ret.other_risk_adjustment
        /\ (/\ call.primary_pattern = "escalation"
            /\ call.anomaly_score = 100
            /\ call.pattern_confidence = 90)
               => ret.risk_adjustment = 3 * AdjustmentUnit

\* An unclamped adjustment that grows with the inputs, next to the clamped
\* escalation example.
C21_Witness ==
    /\ ret.fn = "calculate_risk_adjustment"
    /\ call.primary_pattern = "escalation"
    /\ call.anomaly_score = 0 /\ call.pattern_confidence = 0
    /\ call.other_anomaly_score = 100 /\ call.other_pattern_confidence = 90
    /\ 10 * ret.risk_adjustment = 18 * AdjustmentUnit
    /\ ret.other_risk_adjustment = 3 * AdjustmentUnit

\* ---------------------------------------------------------------- C22
\* What column i of the frame holds before the columns are selected.
ColumnValue(i) == LabelEncoded(call.features[i], call.is_fitted)

Scaled == call.is_fitted /\ call.scaler = "transforms"

C22_WitnessTruncated ==
    /\ ret.fn = "prepare_features"
    /\ Len(call.features) = 25
    /\ Len(ret.vector) = 20
    /\ ~call.is_fitted
    /\ ret.vector[20] = 20

\* ---------------------------------------------------------------- C27
\* The default weight the claim gives each of the three model slots, in
\* hundredths.
ClaimedWeight(name) ==
    CASE name = "xgboost" -> 40
      [] name = "random_forest" -> 35
      [] name = "isolation_forest" -> 25
      [] OTHER -> 20

\* C27: the ensemble score is the weighted sum of the scores of exactly the
\* classifiers that returned a score, with weights 0.4, 0.35 and 0.25,
\* divided by the total weight of those classifiers (compared in
\* thousandths, rounded down).
C27_EnsembleIsWeightedMeanOfReturnedScores ==
    (ret.fn = "_ensemble_predictions" /\ Scored # {}) =>
        LET weighted_sum == SumOf([n \in Scored |-> ClaimedWeight(n) * ReturnedScores[n]])
            total_weight == SumOf([n \in Scored |-> ClaimedWeight(n)])
        IN /\ ret.threat_score * total_weight <= 10 * weighted_sum
           /\ 10 * weighted_sum < (ret.threat_score + 1) * total_weight

\* ---------------------------------------------------------------- C28
\* The severity ordinals the claim compares: the current event's, and those
\* of the three most recent related events (the list is ordered newest
\* first, so these are its first three).
CurrentOrdinal == SeverityLevel(call.current.severity, "medium", 2)

MostRecentOrdinals ==
    {SeverityLevel(call.related[k].severity, "low", 1) :
        k \in {j \in DOMAIN call.related : j <= 3}}

\* C28: when repetitive_attack does not apply and there is at least one
\* related event (also exactly one), the pattern is escalation with
\* confidence 0.8 exactly when the current severity is strictly above the
\* highest severity of the three most recent related events.
C28_EscalationAgainstMostRecentThree ==
    (/\ ret.fn = "analyze_event_patterns"
     /\ call.fn = "correlation"
     /\ Total >= 1
     /\ ~Repetitive) =>
        ((ret.primary_pattern = "escalation" /\ ret.pattern_confidence = 80)
            <=> CurrentOrdinal > MaxOf(MostRecentOrdinals))

\* ---------------------------------------------------------------- C29
\* The contributions the claim lists, in hundredths.
FrequencyContribution ==
    IF Len(call.related) >= 10 THEN 40 ELSE IF Len(call.related) >= 5 THEN 20 ELSE 0

SeverityContribution ==
    IF Lower(call.current.severity) \in {"high", "critical"} THEN 30 ELSE 0

RiskContribution ==
    IF call.current.risk_score.kind # "num" THEN 0
    ELSE IF call.current.risk_score.val >= 80 THEN 30
    ELSE IF call.current.risk_score.val >= 60 THEN 20 ELSE 0

ClusterContribution ==
    IF /\ Len(call.related) >= 3
       /\ \A k \in DOMAIN call.related : call.related[k].created_at.kind = "num"
       /\ \A j, k \in DOMAIN call.related :
             call.related[j].created_at.val - call.related[k].created_at.val <= 3600
    THEN 20 ELSE 0

AcceptedWindow(chars) ==
    /\ Len(chars) >= 2
    /\ \A k \in 1..(Len(chars) - 1) : chars[k] \in Digits
    /\ chars[Len(chars)] \in {"s", "m", "h", "d", "S", "M", "H", "D"}

Strengths == {"very_weak", "weak", "moderate", "strong", "very_strong"}

\* C30: for every time-window string, accepted (a zero value such as "0s"
\* included) or unparseable, correlation analysis with a reachable store
\* computes a correlation strength and a frequency analysis and returns a
\* result instead of failing.
C30_AnalysisReturnsForEveryWindow ==
    /\ (ret.fn = "analyze_correlation" /\ call.connected) =>
          /\ ret.status = 200
          /\ ret.correlation_strength \in Strengths
    /\ ret.fn = "determine_correlation_strength" =>
          ret.correlation_strength \in Strengths

\* The same statement for windows that are not zero, and what a zero
\* window gives.
C30_AnalysisReturnsForNonZeroWindow ==
    /\ (ret.fn = "analyze_correlation" /\ call.connected) =>
          IF AcceptedWindow(call.time_window)
             /\ parse_time_window(call.time_window) = 0
          THEN ret.status = 500
          ELSE ret.status = 200 /\ ret.correlation_strength \in Strengths
    /\ ret.fn = "analyze_frequency_patterns" =>
          (ret.frequency_analysis.frequency_level = "empty"
              <=> parse_time_window(call.time_window) = 0)

\* ---------------------------------------------------------------- C25
\* Whether the store of ev left its row, and the indicators it left, in
\* the order they were upserted.
RowCommitted(ev) == \E k \in DOMAIN eventsTable : eventsTable[k].off = ev.off

CommittedIndicators(ev) ==
    LET us == SelectSeq(upserts, LAMBDA u : u.off = ev.off) IN
    [k \in DOMAIN us |-> [type |-> us[k].type, value |-> us[k].value,
                           confidence |-> us[k].confidence]]

AllOrNothing(ev) ==
    \/ RowCommitted(ev) /\ CommittedIndicators(ev) = Indicators(ev)
    \/ ~RowCommitted(ev) /\ CommittedIndicators(ev) = <<>>

\* Every indicator upserted for ev is in the indicator table.
IndicatorsStored(ev) ==
    \A k \in DOMAIN CommittedIndicators(ev) :
        \E r \in threat_intel :
            /\ r.indicator_type = CommittedIndicators(ev)[k].type
            /\ r.indicator_value = CommittedIndicators(ev)[k].value

Waits == requests["store"].waits

\* A connection is checked out for the transaction of each attempt and is
\* back in the pool while the task waits for its next attempt.
FreshConnectionPerAttempt ==
    /\ requests["store"].pc = "transaction" => requests["store"].held = 1
    /\ requests["store"].pc \in {"sleep", "acquire", "idle"} =>
          requests["store"].held = 0
    /\ Len(Waits) = requests["store"].attempt

FailureKeepsWriter ==
    [][\A i \in 1..MaxWriterTasks :
          (writers[i].pc = "attempt" /\ writers'[i].pc # "attempt")
              => writers'[i].pc \in {"get", "cancelling"}]_vars

\* Tasks leave the queue in the order they entered it: the task taken is
\* the oldest one.
TakenInFifoOrder ==
    [][\A i \in 1..MaxWriterTasks :
          (writers[i].pc = "get" /\ writers'[i].pc = "attempt")
              => /\ writers'[i].ev = Head(db_operation_queue)
                 /\ db_operation_queue' = Tail(db_operation_queue)]_vars

\* C24: a failing task does not stop or stall the writer; while the writer
\* is running, tasks are taken in FIFO order and every queued task
\* eventually gets a store attempt.
C24_WriterMakesProgress ==
    /\ FailureKeepsWriter
    /\ TakenInFifoOrder
    /\ \A o \in Offsets :
          InQueue(o) ~> (attempts[o] > 0 \/ LiveWriters = {})

\* ---------------------------------------------------------------- C23
\* The analysis of the ingested event reports the pattern repetitive_attack.
AnalysisFindsRepetitiveAttack ==
    ret.fn = "analyze_correlation"
        => (ret.status = 200 /\ ret.pattern = "repetitive_attack")

\* Every handled event has an incident, of severity critical.
IncidentIsCritical ==
    \A o \in handled :
        \E k \in DOMAIN incidents :
            incidents[k].off = o /\ incidents[k].severity = "critical"

\* The indicator upserts executed for the event at offset o.
UpsertsForEvent(o) == SelectSeq(upserts, LAMBDA u : u.off = o)

\* Exactly one indicator has been upserted for the event at offset o, keyed
\* on its source_ip.
OneIndicatorOnSourceIp(o) ==
    /\ Len(UpsertsForEvent(o)) = 1
    /\ UpsertsForEvent(o)[1].type = "ip"
    /\ UpsertsForEvent(o)[1].value = "10.0.0.5"

\* No event ever has a second indicator upsert or one on another key.
AtMostOneIndicatorOnSourceIp ==
    \A o \in Offsets : UpsertsForEvent(o) = <<>> \/ OneIndicatorOnSourceIp(o)

\* C23: an ingested event with risk_score 9.5, severity critical and a
\* source_ip, with four earlier events of its type in the correlation
\* window, gets the pattern repetitive_attack and a critical incident, and
\* eventually exactly one indicator upsert, keyed on its source_ip.
C23_EndToEnd ==
    /\ []AnalysisFindsRepetitiveAttack
    /\ []IncidentIsCritical
    /\ []AtMostOneIndicatorOnSourceIp
    /\ \A o \in Offsets : (o \in handled) ~> OneIndicatorOnSourceIp(o)

====
